---- MODULE Spec2Model ----
(***************************************************************************)
(* Gateway node of the IoT micro:bit network (namespace IoT, custom.ts).   *)
(* The gateway keeps a registrar of device serial numbers, polls the       *)
(* devices round-robin with a token handshake, assembles the values it     *)
(* receives into JSON text buffers and writes completed buffers to the     *)
(* serial port; serial lines are relayed to the leaves as radio strings.   *)
(*                                                                         *)
(* Strings are TLA+ strings and are handled as the code handles them       *)
(* (concatenation, includes, substr, split).  Arrays are 0-based in the    *)
(* code and 1-based here: at(a, i) reads index i of the code.              *)
(* Every handler is one action; the record "st" carries the whole program  *)
(* state through the functions a handler calls.                            *)
(*                                                                         *)
(* Left out of the state: timerGatewayRequest and doCommands, which the    *)
(* code writes and never reads, and the display and the pins.              *)
(***************************************************************************)
EXTENDS Integers, Sequences, FiniteSets, TLC

\* ------------------------------------------------------------------ bounds
MaxTime == 500
TimeStep == 500
MaxLoss == 2
MaxFields == 2
PollWindow == 3
MaxFed == 3
MaxMissed == 1
MaxCalls == 2

\* ------------------------------------------------- identities of the nodes
GatewaySN == 10
LeafSN == {11, 12}

\* what the sensors of a node read
Readings == {21}

\* -------------------------------------------------------- values of the VM
\* the value of a missing array element or a deactivated telemetry buffer
null == "null"
\* the number NaN (1 % 0); every comparison with it is false
NaN == -999

VARIABLES
  deviceMode, showDebug, doTelemetry, doProperty, identity,
  device_registrar, device_telemetry, device_property, device_log,
  packet_loss, timerRadioRequest,
  microbit_ID, activeRadioRequest, propString, propValue,
  now,        \* input.runningTime()
  halted,     \* "no", or "panic" after a dereference of null
  serialOut,  \* the lines the last handler wrote to the serial port
  radioOut,   \* the radio packets the last handler sent
  ev,         \* the last handler that ran, with its inputs
  outstanding, \* history: the serial number a token was sent to and that has
               \* neither answered with its terminator nor been abandoned; 0 if none
  pollLog,     \* history: the last polls, <<serial number polled, length of the
               \* registrar>>
  appended,    \* history: per stream and serial number, the fields <<text, num>>
               \* the assembler was given since it last flushed a line
  assigned,    \* history: per serial number, how many setId(id, sn) with id >= 0
               \* were broadcast since the program started
  leaf,        \* the program state of each leaf, by serial number
  missed,      \* history: how many broadcasts of the gateway no leaf has received,
               \* and how many values of the leaves the gateway has not received
  beat,        \* history: the parity of the number of turns each activity has
               \* taken (the ticks, the clock, the loop of registerDevice of each leaf)
  fiber,       \* the fibers of the gateway: what the call of
               \* runGatewayOrchestrator (tick) and the handler of
               \* radio.onReceivedValue (radio) have still to do, and the fiber that
               \* runs and has not paused ("none" if none); calls: how many
               \* radio values have arrived
  twin         \* a second gateway given the same calls and the same radio
               \* values; other: the program of namespace IoT_gateway; quiet:
               \* the program of namespace IoT after enableDebug(false), due:
               \* per fiber, the pauses of 20 ms after which its last handler
               \* has ended, exact: no call has come before that

vars == <<deviceMode, showDebug, doTelemetry, doProperty, identity,
          device_registrar, device_telemetry, device_property, device_log,
          packet_loss, timerRadioRequest,
          microbit_ID, activeRadioRequest, propString, propValue,
          now, halted, serialOut, radioOut, ev, outstanding, pollLog, assigned,
          appended, leaf, missed, beat, fiber, twin>>

\* --------------------------------------------------------- string library
init_telemetry == "{\"topic\":\"telemetry\"}"
init_property == "{\"topic\":\"property\"}"
init_log == "{\"topic\":\"device_log\"}"

DigitStr(d) == SubSeq("0123456789", d + 1, d + 1)

RECURSIVE NatStr(_)
NatStr(n) == IF n < 10 THEN DigitStr(n) ELSE NatStr(n \div 10) \o DigitStr(n % 10)

\* "" + num
numToStr(n) == IF n = NaN THEN "NaN" ELSE IF n < 0 THEN "-" \o NatStr(0 - n) ELSE NatStr(n)

\* s.includes(sub)
includes(s, sub) ==
  \E i \in 1..(Len(s) - Len(sub) + 1) : SubSeq(s, i, i + Len(sub) - 1) = sub

\* s.substr(start, length)
substr(s, start, length) ==
  LET last == IF start + length < Len(s) THEN start + length ELSE Len(s)
  IN SubSeq(s, start + 1, last)

\* s.split(sep), sep one character
RECURSIVE splitFrom(_, _, _)
splitFrom(s, sep, cur) ==
  IF s = "" THEN <<cur>>
  ELSE IF Head(s) = sep THEN <<cur>> \o splitFrom(Tail(s), sep, "")
  ELSE splitFrom(Tail(s), sep, cur \o Head(s))

split(s, sep) == splitFrom(s, sep, "")

\* a[i] of the code: undefined outside the array
at(a, i) == IF i # NaN /\ i >= 0 /\ i < Len(a) THEN a[i + 1] ELSE null

\* a.indexOf(v)
indexOf(a, v) ==
  IF \E i \in 1..Len(a) : a[i] = v
  THEN (CHOOSE i \in 1..Len(a) : a[i] = v /\ \A j \in 1..(i - 1) : a[j] # v) - 1
  ELSE -1

\* a % n on numbers
jsMod(a, n) == IF a = NaN \/ n = 0 THEN NaN ELSE IF a >= 0 THEN a % n ELSE 0 - ((0 - a) % n)

\* ------------------------------------------------------------ the program
Running(st) == st.halted = "no"

\* a method call on null or undefined stops the program
panic(st) == [st EXCEPT !.halted = "panic"]

\* serial.writeLine(text)
writeLine(st, text) ==
  IF ~Running(st) THEN st ELSE [st EXCEPT !.serialOut = Append(@, text)]

\* radio.sendString(text), radio.sendValue(name, value)
sendString(st, text) ==
  IF ~Running(st) THEN st
  ELSE [st EXCEPT !.radioOut = Append(@, [kind |-> "string", text |-> text])]

sendValue(st, name, value) ==
  IF ~Running(st) THEN st
  ELSE [st EXCEPT !.radioOut = Append(@, [kind |-> "value", name |-> name, value |-> value])]

\* debug(s, v?): v is <<>> when absent, <<n>> otherwise
debug(st, s, v) ==
  IF ~Running(st) \/ st.deviceMode # "Gateway" \/ ~st.showDebug THEN st
  ELSE LET topic == "{\"topic\":\"debug\","
           t1 == "\"debug\": \"" \o s
           v1 == IF v # <<>> THEN " = " \o numToStr(v[1]) \o "\"}" ELSE "\"}"
       IN writeLine(st, topic \o t1 \o v1)

setTimerRadioRequest(st, t) ==
  IF ~Running(st) \/ st.deviceMode # "Gateway" THEN st
  ELSE LET v == IF t = <<>> \/ t = <<0>> THEN 400 ELSE t[1]
       IN [st EXCEPT !.timerRadioRequest = st.now + v]

\* ---------------------------------------------------------- the assembler
\* if (JSON.includes("}")) { JSON = JSON.substr(0, JSON.length - 1) + "," }
reopen(JSON) ==
  IF includes(JSON, "}") THEN substr(JSON, 0, Len(JSON) - 1) \o "," ELSE JSON

\* JSON + "\"" + text + "\"" + ":" + num + "}"
withField(JSON, text, num) ==
  JSON \o "\"" \o text \o "\"" \o ":" \o numToStr(num) \o "}"

\* telemetryStore keeping the flushed fields in the buffer
telemetryStore_keep(st, JSON) ==
  IF includes(JSON, "eom")
  THEN [writeLine(writeLine(st, JSON), "")
          EXCEPT !.device_telemetry[st.microbit_ID + 1] = JSON]
  ELSE [st EXCEPT !.device_telemetry[st.microbit_ID + 1] = JSON]

\* gatewaySendTelemetry from "if (JSON.includes("eom"))" on: the flush, the
\* write back to the table
telemetryStore(st, JSON) ==
  IF includes(JSON, "eom")
  THEN [writeLine(writeLine(st, JSON), "")
          EXCEPT !.device_telemetry[st.microbit_ID + 1] = init_telemetry]
  ELSE [st EXCEPT !.device_telemetry[st.microbit_ID + 1] = JSON]

\* telemetryAppend without the identity guard
telemetryAppend_unguarded(st, JSON, text, num) ==
  telemetryStore(st, withField(JSON, text, num))

\* gatewaySendTelemetry from the identity guard on, JSON reopened
telemetryAppend(st, JSON, text, num) ==
  IF includes(JSON, "id") \/ text = "id"
  THEN telemetryStore(st, withField(JSON, text, num))
  ELSE telemetryStore(debug(st, "skipped: " \o text \o ":" \o numToStr(num), <<>>), JSON)

\* gatewaySendTelemetry from "JSON = device_telemetry[microbit_ID]" on
telemetryOpen(st, text, num) ==
  IF at(st.device_telemetry, st.microbit_ID) = null THEN panic(st)
  ELSE telemetryAppend(st, reopen(at(st.device_telemetry, st.microbit_ID)), text, num)

gatewaySendTelemetry(st, sn, text, num) ==
  IF ~Running(st) \/ st.deviceMode # "Gateway" THEN st
  ELSE telemetryOpen(
         debug([st EXCEPT !.microbit_ID = indexOf(st.device_registrar, sn)],
               "ID=" \o numToStr(indexOf(st.device_registrar, sn)) \o " telemetry("
               \o text \o "," \o numToStr(num) \o ")", <<>>),
         text, num)

\* gatewaySendProperty from "if (JSON.includes("eom"))" on
propertyStore(st, JSON) ==
  IF includes(JSON, "eom")
  THEN [writeLine(writeLine(debug(st, "eom property", <<>>), JSON), "")
          EXCEPT !.device_property[st.microbit_ID + 1] = init_property]
  ELSE [st EXCEPT !.device_property[st.microbit_ID + 1] = JSON]

\* gatewaySendProperty from "JSON = device_property[microbit_ID]" on
propertyOpen(st, text, num) ==
  IF at(st.device_property, st.microbit_ID) = null THEN panic(st)
  ELSE propertyStore(st, withField(reopen(at(st.device_property, st.microbit_ID)),
                                   text, num))

gatewaySendProperty(st, sn, text, num) ==
  IF ~Running(st) \/ st.deviceMode # "Gateway" THEN st
  ELSE propertyOpen(
         debug([st EXCEPT !.microbit_ID = indexOf(st.device_registrar, sn)],
               "ID=" \o numToStr(indexOf(st.device_registrar, sn)) \o " sn=" \o numToStr(sn)
               \o " property(" \o text \o "," \o numToStr(num) \o ")", <<>>),
         text, num)

\* gatewaySendLog from "if (JSON.includes("eom"))" on
logStore(st, JSON) ==
  IF includes(JSON, "eom")
  THEN [writeLine(writeLine(debug(st, "eom log", <<>>), JSON), "")
          EXCEPT !.device_log[st.microbit_ID + 1] = init_log]
  ELSE [st EXCEPT !.device_log[st.microbit_ID + 1] = JSON]

\* gatewaySendLog from "JSON = device_log[microbit_ID]" on
logOpen(st, text, num) ==
  IF at(st.device_log, st.microbit_ID) = null THEN panic(st)
  ELSE logStore(st, withField(reopen(at(st.device_log, st.microbit_ID)), text, num))

gatewaySendLog(st, sn, text, num) ==
  IF ~Running(st) \/ st.deviceMode # "Gateway" THEN st
  ELSE logOpen(
         debug([st EXCEPT !.microbit_ID = indexOf(st.device_registrar, sn)],
               "ID=" \o numToStr(indexOf(st.device_registrar, sn)) \o " sn=" \o numToStr(sn)
               \o " log(" \o text \o "," \o numToStr(num) \o ")", <<>>),
         text, num)

\* ----------------------------------------------------------- the registry
\* "setId(" + device_registrar.indexOf(sn) + "," + sn + ")"
setIdOf(st, sn) ==
  "setId(" \o numToStr(indexOf(st.device_registrar, sn)) \o "," \o numToStr(sn) \o ")"

\* push without the buffer of the log
push_short(st, sn) ==
  [st EXCEPT !.device_registrar = Append(@, sn),
             !.device_telemetry = Append(@, init_telemetry),
             !.device_property = Append(@, init_property)]

\* the four pushes of addMicrobit
push(st, sn) ==
  [st EXCEPT !.device_registrar = Append(@, sn),
             !.device_telemetry = Append(@, init_telemetry),
             !.device_property = Append(@, init_property),
             !.device_log = Append(@, init_log)]

\* addMicrobit from radio.sendString on: the id is broadcast, the deadline set
announce(st, sn) ==
  setTimerRadioRequest(debug(sendString(st, setIdOf(st, sn)), setIdOf(st, sn), <<>>),
                       <<1000>>)

\* enrol answering a registered device again
enrol_resend(st, sn) ==
  IF indexOf(st.device_registrar, sn) < 0
  THEN announce(push(debug(st, "id < 0", <<>>), sn), sn)
  ELSE announce(debug(st, "id >= 0", <<>>), sn)

\* enrol reactivating a registered device and answering it again
enrol_reactivate(st, sn) ==
  IF indexOf(st.device_registrar, sn) < 0
  THEN announce(push(debug(st, "id < 0", <<>>), sn), sn)
  ELSE announce([debug(st, "id >= 0", <<>>)
                   EXCEPT !.device_telemetry[indexOf(st.device_registrar, sn) + 1]
                            = init_telemetry],
                sn)

\* enrol giving up the request in flight
enrol_interrupt(st, sn) ==
  IF indexOf(st.device_registrar, sn) < 0
  THEN [announce(push(debug(st, "id < 0", <<>>), sn), sn) EXCEPT !.activeRadioRequest = FALSE]
  ELSE [debug(st, "id >= 0", <<>>) EXCEPT !.activeRadioRequest = FALSE]

\* addMicrobit from "if (id < 0)" on
enrol(st, sn) ==
  IF indexOf(st.device_registrar, sn) < 0
  THEN announce(push(debug(st, "id < 0", <<>>), sn), sn)
  ELSE debug(st, "id >= 0", <<>>)

addMicrobit(st, sn) ==
  IF ~Running(st) \/ st.deviceMode # "Gateway" THEN st
  ELSE enrol(debug(debug(st, "addMicrobit(" \o numToStr(sn) \o ")", <<>>),
                   "id", <<indexOf(st.device_registrar, sn)>>),
             sn)

\* deactivate removing the entry of the device from the four tables
deactivate_compact(st, sn, id) ==
  LET without(a) == SubSeq(a, 1, id) \o SubSeq(a, id + 2, Len(a))
  IN IF id >= 0
     THEN debug(sendString([st EXCEPT !.device_registrar = without(@),
                                      !.device_telemetry = without(@),
                                      !.device_property = without(@),
                                      !.device_log = without(@)],
                           "setId(-1," \o numToStr(sn) \o ")"),
                "delMicrobit > radio.sendString > setId(-1,sn)", <<sn>>)
     ELSE st

\* deactivate notifying also for a device that is inactive already
deactivate_always(st, sn, id) ==
  IF id >= 0
  THEN debug(sendString([st EXCEPT !.device_telemetry[id + 1] = null],
                        "setId(-1," \o numToStr(sn) \o ")"),
             "delMicrobit > radio.sendString > setId(-1,sn)", <<sn>>)
  ELSE st

\* delMicrobit from "if (id >= 0)" on
deactivate(st, sn, id) ==
  IF id >= 0 /\ at(st.device_telemetry, id) # null
  THEN debug(sendString([st EXCEPT !.device_telemetry[id + 1] = null],
                        "setId(-1," \o numToStr(sn) \o ")"),
             "delMicrobit > radio.sendString > setId(-1,sn)", <<sn>>)
  ELSE st

delMicrobit(st, sn) ==
  IF ~Running(st) \/ st.deviceMode # "Gateway" THEN st
  ELSE deactivate(debug(debug(st, "delMicrobit() > sn", <<sn>>),
                        "delMicrobit() > id", <<indexOf(st.device_registrar, sn)>>),
                  sn, indexOf(st.device_registrar, sn))

\* addProperty appending every pair
addProperty_append(st, p, v) ==
  [st EXCEPT !.propString = Append(@, p), !.propValue = Append(@, v)]

\* addProperty(p, v): the reported properties of this node
addProperty(st, p, v) ==
  LET index == indexOf(st.propString, p)
  IN IF index < 0
     THEN [st EXCEPT !.propString = Append(@, p), !.propValue = Append(@, v)]
     ELSE [st EXCEPT !.propString[index + 1] = p, !.propValue[index + 1] = v]

\* ---------------------------------------------------------- the scheduler
\* telemetry categories of this node (their initial settings)
doAccelerometer == TRUE
doMagneticForce == TRUE
doRotation == TRUE
doDigitalRead == FALSE
doAnalogRead == FALSE
doCompass == FALSE
doTemperature == TRUE
doLightLevel == TRUE

\* the calls of gatewaySendTelemetry one after the other
RECURSIVE sendFields(_, _, _)
sendFields(st, sn, fields) ==
  IF fields = <<>> THEN st
  ELSE sendFields(gatewaySendTelemetry(st, sn, Head(fields)[1], Head(fields)[2]),
                  sn, Tail(fields))

\* the fields gatewaySubmitTelemetry sends, in order; r: what the sensors of
\* this node read
gatewayFields(st, r) ==
  << <<"id", 0>>, <<"sn", GatewaySN>>, <<"time", st.now>>,
     <<"packetLoss", st.packet_loss>>, <<"signal", 100>> >>
  \o (IF doTemperature THEN << <<"temperature", r>> >> ELSE <<>>)
  \o (IF doLightLevel THEN << <<"lightLevel", r>> >> ELSE <<>>)
  \o (IF doAccelerometer
      THEN << <<"accelerometerX", r>>, <<"accelerometerY", r>>,
              <<"accelerometerZ", r>>, <<"accelerometerS", r>> >>
      ELSE <<>>)
  \o (IF doMagneticForce
      THEN << <<"magneticForceX", r>>, <<"magneticForceY", r>>,
              <<"magneticForceZ", r>>, <<"magneticForceS", r>> >>
      ELSE <<>>)
  \o (IF doRotation
      THEN << <<"rotationPitch", r>>, <<"rotationRoll", r>> >>
      ELSE <<>>)
  \o (IF doCompass THEN << <<"compass", 1>> >> ELSE <<>>)
  \o (IF doDigitalRead
      THEN << <<"digitalPinP0", r>>, <<"digitalPinP1", r>>, <<"digitalPinP2", r>> >>
      ELSE <<>>)
  \o (IF doAnalogRead
      THEN << <<"analogPinP0", r>>, <<"analogPinP1", r>>, <<"analogPinP2", r>> >>
      ELSE <<>>)
  \o << <<"eom", 1>> >>

gatewaySubmitTelemetry(st, r) ==
  IF ~Running(st) \/ st.deviceMode # "Gateway" \/ ~st.doTelemetry THEN st
  ELSE sendFields(debug(st, "submit gateway telemetry data", <<>>), GatewaySN,
                  gatewayFields(st, r))

RECURSIVE sendProps(_, _, _)
sendProps(st, sn, i) ==
  IF i >= Len(st.propString) THEN st
  ELSE sendProps(gatewaySendProperty(st, sn, st.propString[i + 1], st.propValue[i + 1]),
                 sn, i + 1)

gatewaySubmitProperty(st) ==
  IF ~Running(st) \/ st.deviceMode # "Gateway" THEN st
  ELSE IF st.doProperty /\ Len(st.propString) > 0
       THEN gatewaySendProperty(
              sendProps(gatewaySendProperty(st, GatewaySN, "id", st.microbit_ID),
                        GatewaySN, 0),
              GatewaySN, "eom", 1)
       ELSE st

\* a cursor that skips a slot
advance_skip(id, length) == jsMod(IF id = NaN THEN NaN ELSE id + 2, length)

\* (microbit_ID + 1) % device_registrar.length
advance(id, length) == jsMod(IF id = NaN THEN NaN ELSE id + 1, length)

\* request_next_mb, "if (microbit_ID > 0)": the token to a leaf
pollLeaf(st) ==
  IF Running(st) /\ st.microbit_ID # NaN /\ st.microbit_ID > 0
  THEN sendValue(
         [setTimerRadioRequest(
            debug(debug(st, "request data from remote IoT microbit", <<>>),
                  "send token", <<at(st.device_registrar, st.microbit_ID)>>),
            <<>>)
            EXCEPT !.activeRadioRequest = TRUE],
         "token", at(st.device_registrar, st.microbit_ID))
  ELSE st

\* pollGateway leaving a request in flight
pollGateway_async(st, r) ==
  IF st.microbit_ID = 0
  THEN [gatewaySubmitProperty(
          gatewaySubmitTelemetry(debug(st, "request data from gateway", <<>>), r))
          EXCEPT !.activeRadioRequest = TRUE]
  ELSE st

\* request_next_mb, "if (microbit_ID == 0)": the data of the gateway itself
pollGateway(st, r) ==
  IF st.microbit_ID = 0
  THEN gatewaySubmitProperty(
         gatewaySubmitTelemetry(debug(st, "request data from gateway", <<>>), r))
  ELSE st

\* pollSlot without the test of the slot
pollSlot_unchecked(st, r) == pollLeaf(pollGateway(st, r))

\* request_next_mb from "if (device_telemetry[microbit_ID] != null)" on
pollSlot(st, r) ==
  IF at(st.device_telemetry, st.microbit_ID) # null
  THEN pollLeaf(
         pollGateway(
           IF st.microbit_ID = -1
           THEN debug(st, "exception > device_telemetry["
                          \o numToStr(st.microbit_ID) \o "] = -1", <<>>)
           ELSE st,
           r))
  ELSE debug(st, "exception > device_telemetry["
                 \o numToStr(st.microbit_ID) \o "] = null", <<>>)

request_next_mb(st, r) ==
  IF ~Running(st) \/ st.deviceMode # "Gateway" THEN st
  ELSE pollSlot(
         debug([st EXCEPT !.microbit_ID = advance(@, Len(st.device_registrar))],
               "request next microbit",
               <<advance(st.microbit_ID, Len(st.device_registrar))>>),
         r)

\* countLoss not looking at the deadline
countLoss_eager(st, r) ==
  IF st.activeRadioRequest
  THEN request_next_mb(
         debug([st EXCEPT !.packet_loss = @ + 1], "packet_loss", <<st.packet_loss + 1>>),
         r)
  ELSE st

\* runGatewayOrchestrator, "if (activeRadioRequest)": the deadline has passed
countLoss(st, r) ==
  IF st.activeRadioRequest /\ st.now > st.timerRadioRequest
  THEN request_next_mb(
         debug([st EXCEPT !.packet_loss = @ + 1], "packet_loss", <<st.packet_loss + 1>>),
         r)
  ELSE st

\* runGatewayOrchestrator, "if (!(activeRadioRequest))": a new request
pollIfIdle(st, r) ==
  IF Running(st) /\ ~st.activeRadioRequest THEN request_next_mb(st, r) ELSE st

runGatewayOrchestrator(st, r) ==
  IF ~Running(st) \/ st.deviceMode # "Gateway" THEN st
  ELSE pollIfIdle(countLoss(st, r), r)

\* ------------------------------------------------------- the radio handler
\* the key under which a received telemetry name is stored; "" for a name
\* that is not a telemetry name
telemetryKey(name) ==
  CASE name = "id" -> "id"
    [] name = "sn" -> "sn"
    [] name = "time" -> "time"
    [] name = "packet" -> "packetLoss"
    [] name = "signal" -> "signalStrength"
    [] name = "light" -> "lightLevel"
    [] name = "accX" -> "accelerometerX"
    [] name = "accY" -> "accelerometerY"
    [] name = "accZ" -> "accelerometerZ"
    [] name = "accS" -> "accelerometerS"
    [] name = "magX" -> "magneticForceX"
    [] name = "magY" -> "magneticForceY"
    [] name = "magZ" -> "magneticForceZ"
    [] name = "magS" -> "magneticForceS"
    [] name = "rotP" -> "rotationPitch"
    [] name = "rotR" -> "rotationRoll"
    [] name = "comp" -> "compass"
    [] name = "dP0" -> "digitalPinP0"
    [] name = "dP1" -> "digitalPinP1"
    [] name = "dP2" -> "digitalPinP2"
    [] name = "aP0" -> "analogPinP0"
    [] name = "aP1" -> "analogPinP1"
    [] name = "aP2" -> "analogPinP2"
    [] name = "temp" -> "temperature"
    [] name = "eom" -> "eom"
    [] OTHER -> ""

\* the number stored with a received telemetry name
telemetryValue(st, pkt) ==
  CASE pkt.name = "sn" -> pkt.sn
    [] pkt.name = "time" -> pkt.time
    [] pkt.name = "packet" -> st.packet_loss
    [] pkt.name = "signal" -> pkt.signal
    [] OTHER -> pkt.value

\* activeRadioRequest = false
endOfMessage(st) ==
  IF Running(st) THEN [st EXCEPT !.activeRadioRequest = FALSE] ELSE st

\* the handler from "if (name == "id")" on
storeValue(st, pkt) ==
  IF pkt.name = "eom"
  THEN endOfMessage(gatewaySendTelemetry(st, pkt.sn, "eom", pkt.value))
  ELSE IF telemetryKey(pkt.name) # ""
  THEN gatewaySendTelemetry(st, pkt.sn, telemetryKey(pkt.name), telemetryValue(st, pkt))
  ELSE IF substr(pkt.name, 0, 2) = "d:" THEN st
  ELSE gatewaySendProperty(st, pkt.sn, pkt.name, pkt.value)

\* the handler from "if((name=="register") || (name=="del"))" on
dispatch(st, pkt) ==
  IF pkt.name = "register" THEN addMicrobit(st, pkt.sn)
  ELSE IF pkt.name = "del" THEN delMicrobit(st, pkt.sn)
  ELSE storeValue(debug(st, "radio.onReceivedValue() > id",
                        <<indexOf(st.device_registrar, pkt.sn)>>),
                  pkt)

\* the radio values one after the other
RECURSIVE sendValues(_, _)
sendValues(st, fields) ==
  IF fields = <<>> THEN st
  ELSE sendValues(sendValue(st, Head(fields)[1], Head(fields)[2]), Tail(fields))

\* the values leafSendTelemetry sends, in order; r: what the sensors read
leafFields(st, r) ==
  << <<"id", st.identity>>, <<"sn", 0>>, <<"time", 0>>, <<"packet", 0>>, <<"signal", 0>> >>
  \o (IF doTemperature THEN << <<"temp", r>> >> ELSE <<>>)
  \o (IF doLightLevel THEN << <<"light", r>> >> ELSE <<>>)
  \o (IF doAccelerometer
      THEN << <<"accX", r>>, <<"accY", r>>, <<"accZ", r>>, <<"accS", r>> >>
      ELSE <<>>)
  \o (IF doMagneticForce
      THEN << <<"magX", r>>, <<"magY", r>>, <<"magZ", r>>, <<"magS", r>> >>
      ELSE <<>>)
  \o (IF doCompass THEN << <<"comp", 1>> >> ELSE <<>>)
  \o (IF doDigitalRead THEN << <<"dP0", r>>, <<"dP1", r>>, <<"dP2", r>> >> ELSE <<>>)
  \o (IF doAnalogRead THEN << <<"aP0", r>>, <<"aP1", r>>, <<"aP2", r>> >> ELSE <<>>)

leafSendTelemetry(st, r) ==
  IF st.deviceMode = "EndPoint" /\ st.doTelemetry
  THEN sendValues(st, leafFields(st, r)) ELSE st

leafSendProperty(st) ==
  IF st.deviceMode = "EndPoint" /\ st.doProperty
  THEN sendValues(st, [i \in 1..Len(st.propString) |-> <<st.propString[i], st.propValue[i]>>])
  ELSE st

leafSendEndOfMessage(st) ==
  IF st.deviceMode = "EndPoint" THEN sendValue(st, "eom", 1) ELSE st

\* reply answering the token of any leaf
reply_any(st, pkt, r) ==
  IF st.identity # NaN /\ st.identity >= 0 /\ pkt.name = "token"
  THEN leafSendEndOfMessage(leafSendProperty(leafSendTelemetry(st, r)))
  ELSE st

\* the handler on a leaf: the answer to the token
reply(st, pkt, r) ==
  IF st.identity # NaN /\ st.identity >= 0 /\ pkt.name = "token" /\ pkt.value = st.serial
  THEN leafSendEndOfMessage(leafSendProperty(leafSendTelemetry(st, r)))
  ELSE st

\* pkt: the received packet, [name, value, sn, time, signal]
onReceivedValue(st, pkt) ==
  IF ~Running(st) THEN st
  ELSE IF st.deviceMode # "Gateway" THEN reply(st, pkt, CHOOSE r \in Readings : TRUE)
  ELSE dispatch(
         debug(setTimerRadioRequest(
                 debug(st, "radio.onReceivedValue(" \o pkt.name \o ","
                           \o numToStr(pkt.value) \o ")", <<>>),
                 <<>>),
               "radio.onReceivedValue() > sn", <<pkt.sn>>),
         pkt)

\* ------------------------------------------------------------- the fibers
\* A fiber runs until it pauses (basic.pause) or ends; then another fiber may
\* run. What a fiber has still to do is a sequence of instructions, each a
\* piece of the code with no pause inside and at most one at its end:
\* op names the piece, s and v hold the values of its local variables.
Ins(op, s, v) == [op |-> op, s |-> s, v |-> v]

\* the program in state st, the instructions todo to run next, and whether
\* the fiber pauses first
Then(st, todo, yield) == [st |-> st, push |-> todo, yield |-> yield]

\* runGatewayOrchestrator: "late?" is "if (activeRadioRequest)", "idle?" is
\* "if (!(activeRadioRequest))"
orchestratorStep(st, ins) ==
  IF st.deviceMode # "Gateway" THEN Then(st, <<>>, FALSE)
  ELSE IF ins.op = "late?"
  THEN IF st.activeRadioRequest /\ st.now > st.timerRadioRequest
       THEN Then([st EXCEPT !.packet_loss = @ + 1],
                 <<Ins("debug", "packet_loss", <<st.packet_loss + 1>>),
                   Ins("next", "", <<>>)>>, FALSE)
       ELSE Then(st, <<>>, FALSE)
  ELSE IF ~st.activeRadioRequest THEN Then(st, <<Ins("next", "", <<>>)>>, FALSE)
  ELSE Then(st, <<>>, FALSE)

\* leafPoll broadcasting the token first
leafPoll_tokenFirst ==
  <<Ins("debug", "request data from remote IoT microbit", <<>>),
    Ins("sendToken", "", <<>>), Ins("token", "", <<>>), Ins("arm", "", <<>>),
    Ins("flag", "", <<>>)>>

\* request_next_mb, the branch "if (microbit_ID > 0)", statement by statement
leafPoll ==
  <<Ins("debug", "request data from remote IoT microbit", <<>>),
    Ins("sendToken", "", <<>>), Ins("arm", "", <<>>), Ins("flag", "", <<>>),
    Ins("token", "", <<>>)>>

\* request_next_mb: "next" moves the cursor, "slot" tests the buffer of the
\* slot, "slot0" and "slotPos" are the tests of microbit_ID, "sendToken" to
\* "token" the statements of the branch of a leaf
requestStep(st, ins) ==
  CASE ins.op = "next" ->
         IF st.deviceMode # "Gateway" THEN Then(st, <<>>, FALSE)
         ELSE Then([st EXCEPT !.microbit_ID = advance(@, Len(st.device_registrar))],
                   <<Ins("debug", "request next microbit",
                         <<advance(st.microbit_ID, Len(st.device_registrar))>>),
                     Ins("slot", "", <<>>)>>, FALSE)
    [] ins.op = "slot" ->
         IF at(st.device_telemetry, st.microbit_ID) # null
         THEN Then(st,
                   (IF st.microbit_ID = -1
                    THEN <<Ins("debug", "exception > device_telemetry["
                                        \o numToStr(st.microbit_ID) \o "] = -1", <<>>)>>
                    ELSE <<>>)
                   \o <<Ins("slot0", "", <<>>), Ins("slotPos", "", <<>>)>>, FALSE)
         ELSE Then(st, <<Ins("debug", "exception > device_telemetry["
                                      \o numToStr(st.microbit_ID) \o "] = null", <<>>)>>,
                   FALSE)
    [] ins.op = "slot0" ->
         IF st.microbit_ID = 0
         THEN Then(st, <<Ins("debug", "request data from gateway", <<>>),
                         Ins("submitTelemetry", "", <<>>),
                         Ins("submitProperty", "", <<>>)>>, FALSE)
         ELSE Then(st, <<>>, FALSE)
    [] ins.op = "slotPos" ->
         IF st.microbit_ID # NaN /\ st.microbit_ID > 0
         THEN Then(st, leafPoll, FALSE)
         ELSE Then(st, <<>>, FALSE)
    [] ins.op = "sendToken" ->
         Then(st, <<Ins("debug", "send token",
                        <<at(st.device_registrar, st.microbit_ID)>>)>>, FALSE)
    [] ins.op = "arm" -> Then(setTimerRadioRequest(st, <<>>), <<>>, FALSE)
    [] ins.op = "flag" -> Then([st EXCEPT !.activeRadioRequest = TRUE], <<>>, FALSE)
    [] ins.op = "token" ->
         Then(sendValue(st, "token", at(st.device_registrar, st.microbit_ID)), <<>>, FALSE)

\* gatewaySubmitTelemetry, one call of gatewaySendTelemetry per field (the
\* clock and the loss counter do not change while they are sent), and
\* gatewaySubmitProperty; r: what the sensors of this node read
submitStep(st, ins, r) ==
  IF ins.op = "submitProperty" THEN Then(gatewaySubmitProperty(st), <<>>, FALSE)
  ELSE IF st.deviceMode # "Gateway" \/ ~st.doTelemetry THEN Then(st, <<>>, FALSE)
  ELSE Then(st,
            <<Ins("debug", "submit gateway telemetry data", <<>>)>>
            \o [i \in 1..Len(gatewayFields(st, r)) |->
                  Ins("send", gatewayFields(st, r)[i][1],
                      <<GatewaySN, gatewayFields(st, r)[i][2]>>)],
            FALSE)

\* gatewaySendTelemetry(sn, text, num), v = <<sn, num>>: "send" sets the
\* cursor, "open" reads the buffer and appends the field, "close" writes the
\* line of a message that is complete or writes the buffer back, "frame"
\* writes the empty line, "store" writes the template back
telemetryStep(st, ins) ==
  CASE ins.op = "send" ->
         IF st.deviceMode # "Gateway" THEN Then(st, <<>>, FALSE)
         ELSE Then([st EXCEPT !.microbit_ID = indexOf(st.device_registrar, ins.v[1])],
                   <<Ins("debug",
                         "ID=" \o numToStr(indexOf(st.device_registrar, ins.v[1]))
                         \o " telemetry(" \o ins.s \o "," \o numToStr(ins.v[2]) \o ")",
                         <<>>),
                     Ins("open", ins.s, ins.v)>>, FALSE)
    [] ins.op = "open" ->
         IF at(st.device_telemetry, st.microbit_ID) = null THEN Then(panic(st), <<>>, FALSE)
         ELSE IF includes(reopen(at(st.device_telemetry, st.microbit_ID)), "id")
                 \/ ins.s = "id"
         THEN Then(st, <<Ins("close",
                             withField(reopen(at(st.device_telemetry, st.microbit_ID)),
                                       ins.s, ins.v[2]),
                             ins.v)>>, FALSE)
         ELSE Then(st, <<Ins("debug", "skipped: " \o ins.s \o ":" \o numToStr(ins.v[2]),
                             <<>>),
                         Ins("close", reopen(at(st.device_telemetry, st.microbit_ID)),
                             ins.v)>>, FALSE)
    [] ins.op = "close" ->
         IF includes(ins.s, "eom")
         THEN Then(writeLine(st, ins.s), <<Ins("frame", "", ins.v)>>, TRUE)
         ELSE Then([st EXCEPT !.device_telemetry[st.microbit_ID + 1] = ins.s], <<>>, FALSE)
    [] ins.op = "frame" -> Then(writeLine(st, ""), <<Ins("store", "", ins.v)>>, TRUE)
    [] ins.op = "store" ->
         Then([st EXCEPT !.device_telemetry[st.microbit_ID + 1] = init_telemetry],
              <<>>, FALSE)

\* radio.onReceivedValue(name, value) for a packet from sn, s = name and
\* v = <<sn, value>>: "receive" is the entry, "rearm" the call of
\* setTimerRadioRequest, "dispatch" the test of the name, "value" the branch of
\* a telemetry name, "unflag" the end of the branch of "eom"
receiveStep(st, ins) ==
  CASE ins.op = "receive" ->
         IF st.deviceMode # "Gateway" THEN Then(st, <<>>, FALSE)
         ELSE Then(st, <<Ins("debug", "radio.onReceivedValue(" \o ins.s \o ","
                                      \o numToStr(ins.v[2]) \o ")", <<>>),
                         Ins("rearm", "", <<>>),
                         Ins("debug", "radio.onReceivedValue() > sn", <<ins.v[1]>>),
                         Ins("dispatch", ins.s, ins.v)>>, FALSE)
    [] ins.op = "rearm" -> Then(setTimerRadioRequest(st, <<>>), <<>>, FALSE)
    [] ins.op = "dispatch" ->
         IF ins.s = "register" THEN Then(addMicrobit(st, ins.v[1]), <<>>, FALSE)
         ELSE IF ins.s = "del" THEN Then(delMicrobit(st, ins.v[1]), <<>>, FALSE)
         ELSE Then(st, <<Ins("debug", "radio.onReceivedValue() > id",
                             <<indexOf(st.device_registrar, ins.v[1])>>),
                         Ins("value", ins.s, ins.v)>>, FALSE)
    [] ins.op = "value" ->
         IF ins.s = "eom"
         THEN Then(st, <<Ins("send", "eom", ins.v), Ins("unflag", "", <<>>)>>, FALSE)
         ELSE IF ins.s = "id" THEN Then(st, <<Ins("send", "id", ins.v)>>, FALSE)
         ELSE Then(storeValue(st, [name |-> ins.s, value |-> ins.v[2], sn |-> ins.v[1],
                                   time |-> 0, signal |-> -70]), <<>>, FALSE)
    [] ins.op = "unflag" -> Then([st EXCEPT !.activeRadioRequest = FALSE], <<>>, FALSE)

\* one instruction; debug(s, v) pauses after the line it writes
exec(st, ins, r) ==
  IF ins.op = "debug"
  THEN Then(debug(st, ins.s, ins.v), <<>>, st.deviceMode = "Gateway" /\ st.showDebug)
  ELSE IF ins.op \in {"late?", "idle?"} THEN orchestratorStep(st, ins)
  ELSE IF ins.op \in {"submitTelemetry", "submitProperty"} THEN submitStep(st, ins, r)
  ELSE IF ins.op \in {"send", "open", "close", "frame", "store"} THEN telemetryStep(st, ins)
  ELSE IF ins.op \in {"receive", "rearm", "dispatch", "value", "unflag"}
  THEN receiveStep(st, ins)
  ELSE requestStep(st, ins)

\* ------------------------------------------------------------ the commands
isDigit(c) == c \in {"0", "1", "2", "3", "4", "5", "6", "7", "8", "9"}

digitVal(c) == CHOOSE d \in 0..9 : DigitStr(d) = c

RECURSIVE trimLeft(_)
trimLeft(s) == IF s # "" /\ Head(s) = " " THEN trimLeft(Tail(s)) ELSE s

\* the value of the longest prefix of digits of s, from acc; <<>> if no digit
RECURSIVE digitsValue(_, _, _)
digitsValue(s, acc, seen) ==
  IF s # "" /\ isDigit(Head(s))
  THEN digitsValue(Tail(s), 10 * acc + digitVal(Head(s)), TRUE)
  ELSE IF seen THEN <<acc>> ELSE <<>>

\* parseFloat(s) on the integer numerals; NaN when s does not start with one
parseFloat(s) ==
  IF s = null THEN NaN
  ELSE LET t == trimLeft(s)
           neg == t # "" /\ Head(t) = "-"
           body == IF t # "" /\ Head(t) \in {"-", "+"} THEN Tail(t) ELSE t
           d == digitsValue(body, 0, FALSE)
       IN IF d = <<>> THEN NaN ELSE IF neg THEN 0 - d[1] ELSE d[1]

numEq(a, b) == a # NaN /\ b # NaN /\ a = b

\* setIdentity without the comparison of the serial number
setIdentity_any(st, i, v) == IF Running(st) THEN [st EXCEPT !.identity = i] ELSE st

setIdentity(st, i, v) ==
  IF Running(st) /\ numEq(v, st.serial) THEN [st EXCEPT !.identity = i] ELSE st

\* control.reset() restarts the program
setReset(st) == IF Running(st) THEN [st EXCEPT !.halted = "reset"] ELSE st

\* the names invokeCommands compares cmd with
catalog ==
  {"setId", "who", "clear", "rgb", "color", "icon", "reset", "brightness", "servo",
   "digitalWrite", "analogWrite"}

\* invokeCommands stopping the program at a name that is not in the catalog
invokeCommands_strict(st, cmd, p1, p2, p3) ==
  IF ~Running(st) THEN st
  ELSE IF cmd = "setId" THEN setIdentity(st, parseFloat(p1), parseFloat(p2))
  ELSE IF cmd = "reset" THEN setReset(st)
  ELSE IF cmd \in catalog THEN st
  ELSE panic(st)

\* the other commands act on the display and the pins only
invokeCommands(st, cmd, p1, p2, p3) ==
  IF ~Running(st) THEN st
  ELSE IF cmd = "setId" THEN setIdentity(st, parseFloat(p1), parseFloat(p2))
  ELSE IF cmd = "reset" THEN setReset(st)
  ELSE st

\* the call NAME(p1,p2,p3) of a command
runCall(st, call) ==
  LET t1 == split(call, "(")
  IN IF Len(t1) < 2 THEN panic(st)
     ELSE LET t2 == split(t1[2], ")")
              t3 == split(t2[1], ",")
          IN invokeCommands(st, t1[1], at(t3, 0), at(t3, 1), at(t3, 2))

processC2D(st, s) ==
  IF ~Running(st) \/ s = "" THEN st
  ELSE LET t0 == split(s, ":")
       IN IF Len(t0) = 1 THEN runCall(st, s)
          ELSE IF Len(t0) = 2
          THEN IF numEq(parseFloat(t0[1]), st.identity) THEN runCall(st, t0[2]) ELSE st
          ELSE st

\* ------------------------------------------------------ the serial handler
RECURSIVE relayEach(_, _, _, _)
relayEach(st, t1, call, i) ==
  IF i > Len(t1) - 1 THEN st
  ELSE LET cmd == t1[i + 1] \o ":" \o call
           s1 == sendString(processC2D(st, cmd), cmd)
           s2 == debug(s1, "serial.onDataReceived() > radio.sendString(" \o cmd \o ")", <<>>)
       IN relayEach(s2, t1, call, i + 1)

onDataReceived(st, serialRead) ==
  IF ~Running(st) \/ st.deviceMode # "Gateway" THEN st
  ELSE LET s1 == debug(st, "serial.onDataReceived() > serialRead =" \o serialRead, <<>>)
       IN IF serialRead = "" THEN s1
          ELSE LET t0 == split(serialRead, ":")
               IN IF Len(t0) = 1
                  THEN debug(sendString(processC2D(s1, serialRead), serialRead),
                             "serial.onDataReceived() > radio.sendString("
                             \o serialRead \o ")", <<>>)
                  ELSE IF Len(t0) = 2
                  THEN relayEach(s1, split(t0[1], ","), t0[2], 0)
                  ELSE s1

\* ------------------------------------------------------------- the blocks
setDeviceMode(st, mode) ==
  IF mode = "EndPoint"
  THEN [st EXCEPT !.deviceMode = "EndPoint", !.identity = -1]
  ELSE addMicrobit([st EXCEPT !.deviceMode = "Gateway", !.identity = 0], st.serial)

enableDebug(st, on) == [st EXCEPT !.showDebug = on]

sendTelemetry(st, b) == [st EXCEPT !.doTelemetry = b]

sendProperty(st, b) == [st EXCEPT !.doProperty = b]

\* ------------------------------------------------------ the state machine
\* the program state as one record
State ==
  [deviceMode |-> deviceMode, showDebug |-> showDebug, doTelemetry |-> doTelemetry,
   doProperty |-> doProperty, identity |-> identity,
   device_registrar |-> device_registrar, device_telemetry |-> device_telemetry,
   device_property |-> device_property, device_log |-> device_log,
   packet_loss |-> packet_loss, timerRadioRequest |-> timerRadioRequest,
   microbit_ID |-> microbit_ID,
   activeRadioRequest |-> activeRadioRequest, propString |-> propString,
   propValue |-> propValue, now |-> now, halted |-> halted,
   serialOut |-> <<>>, radioOut |-> <<>>, serial |-> GatewaySN]

\* the state after the declarations of the namespace have run
Boot ==
  [deviceMode |-> "Gateway", showDebug |-> TRUE, doTelemetry |-> TRUE,
   doProperty |-> TRUE, identity |-> -1,
   device_registrar |-> <<>>, device_telemetry |-> <<>>,
   device_property |-> <<>>, device_log |-> <<>>,
   packet_loss |-> 0, timerRadioRequest |-> 0,
   microbit_ID |-> 0,
   activeRadioRequest |-> FALSE, propString |-> <<>>,
   propValue |-> <<>>, now |-> 0, halted |-> "no",
   serialOut |-> <<>>, radioOut |-> <<>>, serial |-> GatewaySN]

\* ------------------------------------- the gateway of namespace IoT_gateway
\* The other gateway module (part_000). Its registry (addMicrobit,
\* delMicrobit), its debug and its setTimerRadioRequest are the code of
\* namespace IoT without the test of deviceMode, and are the operators above
\* applied to a state whose deviceMode is Gateway; doGatewayOrchestrator is
\* the flag its handlers test instead.
IoT_gateway_telemetry(st, sn, text, num) ==
  IF ~Running(st) THEN st
  ELSE IF at(st.device_telemetry, st.microbit_ID) = null THEN panic(st)
  ELSE LET JSON == reopen(at(st.device_telemetry, st.microbit_ID))
           store(s, J) ==
             IF includes(J, "eom")
             THEN [writeLine(s, J) EXCEPT !.device_telemetry[st.microbit_ID + 1]
                                            = init_telemetry]
             ELSE [s EXCEPT !.device_telemetry[st.microbit_ID + 1] = J]
       IN IF includes(JSON, "id") \/ text = "id"
          THEN store(st, withField(JSON, text, num))
          ELSE store(debug(st, "skipped: " \o text \o ":" \o numToStr(num), <<>>), JSON)

\* property and log from "let JSON = ..." on: table is device_property or
\* device_log, template its init_ constant, note the diagnostic of the flush
IoT_gateway_assemble(st, table, template, note, text, num) ==
  IF at(st[table], st.microbit_ID) = null THEN panic(st)
  ELSE LET JSON == withField(reopen(at(st[table], st.microbit_ID)), text, num)
       IN IF includes(JSON, "eom")
          THEN [writeLine(debug(st, note, <<>>), JSON)
                  EXCEPT ![table][st.microbit_ID + 1] = template]
          ELSE [st EXCEPT ![table][st.microbit_ID + 1] = JSON]

IoT_gateway_property(st, sn, text, num) ==
  IF ~Running(st) THEN st
  ELSE IoT_gateway_assemble(
         debug([st EXCEPT !.microbit_ID = indexOf(st.device_registrar, sn)],
               "ID=" \o numToStr(indexOf(st.device_registrar, sn)) \o " sn=" \o numToStr(sn)
               \o " property(" \o text \o "," \o numToStr(num) \o ")", <<>>),
         "device_property", init_property, "eom property", text, num)

IoT_gateway_log(st, sn, text, num) ==
  IF ~Running(st) THEN st
  ELSE IoT_gateway_assemble(
         debug([st EXCEPT !.microbit_ID = indexOf(st.device_registrar, sn)],
               "ID=" \o numToStr(indexOf(st.device_registrar, sn)) \o " sn=" \o numToStr(sn)
               \o " log(" \o text \o "," \o numToStr(num) \o ")", <<>>),
         "device_log", init_log, "eom log", text, num)

\* radio.onReceivedValue of IoT_gateway
IoT_gateway_onReceivedValue(st, pkt) ==
  IF ~Running(st) \/ ~st.doGatewayOrchestrator THEN st
  ELSE LET dispatch_(s) ==
             IF pkt.name = "register" THEN addMicrobit(s, pkt.sn)
             ELSE IF pkt.name = "del" THEN delMicrobit(s, pkt.sn)
             ELSE IF pkt.name = "eom"
             THEN endOfMessage(
                    IoT_gateway_log(
                      IoT_gateway_property(
                        IoT_gateway_telemetry(s, pkt.sn, "eom", pkt.value),
                        pkt.sn, "eom", pkt.value),
                      pkt.sn, "eom", pkt.value))
             ELSE IF pkt.name \in {"id", "sn", "time", "packet", "signal", "light", "accX",
                                   "accY", "accZ", "comp", "dP0", "dP1", "dP2", "aP0",
                                   "aP1", "aP2", "temp"}
             THEN IoT_gateway_telemetry(s, pkt.sn, telemetryKey(pkt.name),
                                        telemetryValue(s, pkt))
             ELSE IF substr(pkt.name, 0, 2) = "d:"
             THEN IoT_gateway_log(s, pkt.sn, substr(pkt.name, 2, Len(pkt.name)), pkt.value)
             ELSE IoT_gateway_property(s, pkt.sn, pkt.name, pkt.value)
       IN dispatch_(setTimerRadioRequest(st, <<>>))

\* the calls of telemetry one after the other
RECURSIVE IoT_gateway_sendFields(_, _, _)
IoT_gateway_sendFields(st, sn, fields) ==
  IF fields = <<>> THEN st
  ELSE IoT_gateway_sendFields(
         IoT_gateway_telemetry(st, sn, Head(fields)[1], Head(fields)[2]), sn, Tail(fields))

\* r: what the sensors and the pins of the gateway read
IoT_gateway_send_gateway_telemetry(st, r) ==
  IF ~Running(st) \/ ~st.doTelemetry THEN st
  ELSE IoT_gateway_sendFields(
         debug(st, "send gateway telemetry data", <<>>), GatewaySN,
         << <<"id", 0>>, <<"sn", GatewaySN>>, <<"time", st.now>>,
            <<"packetLoss", st.packet_loss>>, <<"signal", 100>>, <<"temp", r>>,
            <<"lightLevel", r>>, <<"accelerometerX", r>>, <<"accelerometerY", r>>,
            <<"accelerometerZ", r>>, <<"compass", 1>>, <<"digitalPinP0", r>>,
            <<"digitalPinP1", r>>, <<"digitalPinP2", r>>, <<"analogPinP0", r>>,
            <<"analogPinP1", r>>, <<"analogPinP2", r>>, <<"eom", 1>> >>)

IoT_gateway_request_next_mb(st, r) ==
  IF ~Running(st) THEN st
  ELSE LET slot(s) ==
             IF at(s.device_telemetry, s.microbit_ID) # null
             THEN IF s.microbit_ID = 0
                  THEN IoT_gateway_send_gateway_telemetry(
                         debug(s, "request data from gateway", <<>>), r)
                  ELSE pollLeaf(s)
             ELSE debug(s, "exception > device_telemetry["
                           \o numToStr(s.microbit_ID) \o "] = null", <<>>)
       IN slot(debug([st EXCEPT !.microbit_ID = advance(@, Len(st.device_registrar))],
                     "request next microbit",
                     <<advance(st.microbit_ID, Len(st.device_registrar))>>))

IoT_gateway_runGatewayOrchestrator(st, r) ==
  IF ~Running(st) THEN st
  ELSE LET late(s) ==
             IF s.activeRadioRequest /\ s.now > s.timerRadioRequest
             THEN IoT_gateway_request_next_mb(
                    debug([s EXCEPT !.packet_loss = @ + 1], "packet_loss",
                          <<s.packet_loss + 1>>), r)
             ELSE s
           idle(s) ==
             IF Running(s) /\ ~s.activeRadioRequest
             THEN IoT_gateway_request_next_mb(s, r) ELSE s
       IN idle(late([st EXCEPT !.doGatewayOrchestrator = TRUE]))

\* the state after the declarations of namespace IoT_gateway have run: the
\* gateway is in its registrar
IoT_gateway_Boot ==
  [addMicrobit(Boot @@ [doGatewayOrchestrator |-> FALSE], GatewaySN)
     EXCEPT !.serialOut = <<>>, !.radioOut = <<>>]

\* ------------------------------------------------------------- the leaves
\* a leaf after its declarations and setDeviceMode(Mode.EndPoint) have run
LeafBoot(sn) == setDeviceMode([Boot EXCEPT !.serial = sn], "EndPoint")

\* radio.onReceivedString of a node
onReceivedString(st, receivedString) ==
  IF Running(st) /\ st.deviceMode = "EndPoint" THEN processC2D(st, receivedString) ELSE st

\* a leaf that has called control.reset() starts again
restart(st, sn) == IF st.halted = "reset" THEN LeafBoot(sn) ELSE st

\* a leaf receives the strings ss one after the other
RECURSIVE hearAll(_, _)
hearAll(st, ss) ==
  IF ss = <<>> THEN st
  ELSE hearAll(restart(onReceivedString(st, Head(ss)), st.serial), Tail(ss))

Nodes == {GatewaySN} \cup LeafSN

\* ---- what a handler has sent and written
\* the token a handler has sent, 0 if none
tokenOf(out) ==
  LET toks == {i \in 1..Len(out) : out[i].kind = "value" /\ out[i].name = "token"}
  IN IF toks = {} THEN 0 ELSE out[CHOOSE i \in toks : \A j \in toks : j <= i].value

\* the strings a handler has broadcast, in order
strings(out) ==
  LET sel == SelectSeq(out, LAMBDA p : p.kind = "string")
  IN [i \in 1..Len(sel) |-> sel[i].text]

\* the message lines (not the diagnostics, not the empty lines) among lines
messages(lines) ==
  SelectSeq(lines, LAMBDA l : l # "" /\ ~includes(l, "\"topic\":\"debug\""))

\* the device a tick has polled, seen from outside: the leaf it sent the token
\* to, the gateway if it wrote a line of its own, 0 if it polled nobody
polled(n) ==
  IF tokenOf(n.radioOut) # 0 THEN tokenOf(n.radioOut)
  ELSE IF messages(n.serialOut) # <<>> THEN GatewaySN
  ELSE 0

\* the setId(id, sn) broadcasts among the packets out, for id >= 0
assignments(out, sn) ==
  {i \in 1..Len(out) :
     /\ out[i].kind = "string"
     /\ \E id \in 0..Len(out) + 3 :
          out[i].text = "setId(" \o numToStr(id) \o "," \o numToStr(sn) \o ")"}

\* ---- the history variables
\* a tick moves the cursor when no request is in flight or the deadline has passed
tickMoves ==
  /\ halted = "no" /\ deviceMode = "Gateway"
  /\ (~activeRadioRequest \/ now > timerRadioRequest)

lastOf(log, k) == IF Len(log) <= k THEN log ELSE SubSeq(log, Len(log) - k + 1, Len(log))

NoFields == [stream \in {"telemetry", "property"} |-> [sn \in Nodes |-> <<>>]]

\* the history after handler e has led to state n; keep: the histories that
\* the specification at hand records
History(n, e, keep) ==
  IF n.halted = "reset"
  THEN /\ assigned' = [sn \in Nodes |-> 0]
       /\ outstanding' = 0
       /\ pollLog' = <<>>
       /\ appended' = NoFields
  ELSE /\ assigned' = [sn \in Nodes |->
                         assigned[sn] + Cardinality(assignments(n.radioOut, sn))]
       /\ outstanding' =
            IF e.op = "tick" /\ tickMoves THEN tokenOf(n.radioOut)
            ELSE IF e.op = "radio" /\ e.pkt.name = "eom" /\ e.pkt.sn = outstanding THEN 0
            ELSE outstanding
       /\ pollLog' =
            IF "pollLog" \in keep /\ e.op = "tick"
            THEN lastOf(Append(pollLog, <<polled(n), Len(n.device_registrar)>>), PollWindow)
            ELSE pollLog
       /\ appended' =
            IF "appended" \in keep /\ e.op = "append" /\ n.halted = "no"
            THEN [appended EXCEPT ![e.stream][e.sn] =
                    IF messages(n.serialOut) # <<>> THEN <<>> ELSE e.fed]
            ELSE appended

\* the turns taken, after the turn e
NoBeat == [tick |-> 0, time |-> 0, loop |-> [sn \in LeafSN |-> 0]]

turn(b, e) ==
  IF e.op = "tick" THEN [b EXCEPT !.tick = 1 - @]
  ELSE IF e.op = "time" THEN [b EXCEPT !.time = 1 - @]
  ELSE IF e.op = "radio" /\ e.pkt.name = "register" THEN [b EXCEPT !.loop[e.pkt.sn] = 1 - @]
  ELSE b

\* the broadcast of handler e does not reach the leaves
lost(e) == "lost" \in DOMAIN e /\ e.lost

\* a leaf receives the token among the packets out, if there is one
hearToken(st, out) ==
  IF tokenOf(out) = 0 THEN st
  ELSE onReceivedValue(st, [name |-> "token", value |-> tokenOf(out), sn |-> GatewaySN,
                            time |-> 0, signal |-> -70])

\* the leaves after the gateway has broadcast the packets out in handler e;
\* e.leaves: the leaves after a step of their own; "air" in keep: the leaves
\* receive the values of the gateway too
Heard(out, e, keep) ==
  IF "leaves" \in DOMAIN e THEN e.leaves
  ELSE IF "leaf" \in keep /\ ~lost(e)
  THEN [sn \in LeafSN |->
          IF "air" \in keep THEN hearToken(hearAll(leaf[sn], strings(out)), out)
          ELSE hearAll(leaf[sn], strings(out))]
  ELSE leaf

\* the program continues in state st; a reset starts it again from Boot,
\* what the handler had sent before the reset stays sent
Becomes(st, e, keep) ==
  LET n == IF st.halted = "reset"
           THEN [Boot EXCEPT !.serialOut = st.serialOut, !.radioOut = st.radioOut]
           ELSE st
  IN /\ deviceMode' = n.deviceMode
     /\ showDebug' = n.showDebug
     /\ doTelemetry' = n.doTelemetry
     /\ doProperty' = n.doProperty
     /\ identity' = n.identity
     /\ device_registrar' = n.device_registrar
     /\ device_telemetry' = n.device_telemetry
     /\ device_property' = n.device_property
     /\ device_log' = n.device_log
     /\ packet_loss' = n.packet_loss
     /\ timerRadioRequest' = n.timerRadioRequest
     /\ microbit_ID' = n.microbit_ID
     /\ activeRadioRequest' = n.activeRadioRequest
     /\ propString' = n.propString
     /\ propValue' = n.propValue
     /\ now' = n.now
     /\ halted' = n.halted
     /\ serialOut' = n.serialOut
     /\ radioOut' = n.radioOut
     /\ ev' = e @@ [reset |-> st.halted = "reset"]
     /\ leaf' = Heard(st.radioOut, e, keep)
     /\ missed' = IF lost(e) /\ (strings(st.radioOut) # <<>> \/ e.op = "drop")
                  THEN missed + 1 ELSE missed
     /\ beat' = IF "beat" \in keep THEN turn(beat, e) ELSE beat
     /\ fiber' = IF "fibers" \in DOMAIN e THEN e.fibers ELSE fiber
     /\ twin' = IF "twin" \in DOMAIN e THEN e.twin ELSE twin
     /\ History(st, e, keep)

Init ==
  /\ deviceMode = Boot.deviceMode
  /\ showDebug = Boot.showDebug
  /\ doTelemetry = Boot.doTelemetry
  /\ doProperty = Boot.doProperty
  /\ identity = Boot.identity
  /\ device_registrar = Boot.device_registrar
  /\ device_telemetry = Boot.device_telemetry
  /\ device_property = Boot.device_property
  /\ device_log = Boot.device_log
  /\ packet_loss = Boot.packet_loss
  /\ timerRadioRequest = Boot.timerRadioRequest
  /\ microbit_ID = Boot.microbit_ID
  /\ activeRadioRequest = Boot.activeRadioRequest
  /\ propString = Boot.propString
  /\ propValue = Boot.propValue
  /\ now = Boot.now
  /\ halted = Boot.halted
  /\ serialOut = Boot.serialOut
  /\ radioOut = Boot.radioOut
  /\ ev = [op |-> "boot", reset |-> FALSE]
  /\ outstanding = 0
  /\ pollLog = <<>>
  /\ assigned = [sn \in Nodes |-> 0]
  /\ appended = NoFields
  /\ leaf = [sn \in LeafSN |-> LeafBoot(sn)]
  /\ missed = 0
  /\ beat = NoBeat
  /\ fiber = [run |-> "none", tick |-> <<>>, radio |-> <<>>, calls |-> 0]
  /\ twin = [other |-> IoT_gateway_Boot, quiet |-> enableDebug(Boot, FALSE),
             due |-> [tick |-> 0, radio |-> 0], exact |-> TRUE]

\* the number of occurrences of character c in s
RECURSIVE count(_, _)
count(s, c) == IF s = "" THEN 0 ELSE (IF Head(s) = c THEN 1 ELSE 0) + count(Tail(s), c)

\* no buffer of st holds more than MaxFields fields
Fits(st) ==
  \A i \in 1..Len(st.device_registrar) :
    /\ st.device_telemetry[i] # null => count(st.device_telemetry[i], ":") <= MaxFields + 1
    /\ count(st.device_property[i], ":") <= MaxFields + 1
    /\ count(st.device_log[i], ":") <= MaxFields + 1

\* the gateway has started: slot 0 of the registrar is the gateway itself
Started == device_registrar # <<>> /\ device_registrar[1] = GatewaySN

\* ---- the handlers, their inputs drawn from the given sets
Packet(nm, v, sn) == [name |-> nm, value |-> v, sn |-> sn, time |-> 0, signal |-> -70]

SetDeviceMode ==
  /\ halted = "no"
  /\ Becomes(setDeviceMode(State, "Gateway"), [op |-> "setDeviceMode"], {})

TickOp(readings, keep) ==
  /\ halted = "no"
  /\ packet_loss < MaxLoss
  /\ \E r \in readings :
       Becomes(runGatewayOrchestrator(State, r), [op |-> "tick"], keep)

RadioValueOf(pkt) ==
  /\ halted = "no"
  /\ Fits(onReceivedValue(State, pkt))
  /\ Becomes(onReceivedValue(State, pkt), [op |-> "radio", pkt |-> pkt], {})

SerialLineOf(line) ==
  /\ halted = "no"
  /\ Becomes(onDataReceived(State, line), [op |-> "serial", line |-> line], {})

AdvanceTime ==
  /\ halted = "no"
  /\ now + TimeStep <= MaxTime
  /\ Becomes([State EXCEPT !.now = now + TimeStep], [op |-> "time"], {})

\* basic.pause(200): the time between two turns of the loop of registerDevice
Pause == 200

\* the clock advances by Pause. The program reads the clock to set a deadline
\* (timerRadioRequest = runningTime() + v) and to compare it with one
\* (runningTime() > timerRadioRequest): the deadline moves back, the clock
\* stays, and a deadline that has passed stays just behind the clock
ElapseOp(keep) ==
  /\ halted = "no"
  /\ Becomes([State EXCEPT !.timerRadioRequest =
                             IF @ - Pause < now THEN now - 1 ELSE @ - Pause],
             [op |-> "time"], keep)

\* registerDevice of leaf sn, one turn of its loop: the leaf sends "register",
\* the gateway handles it and the leaves receive what it broadcasts, unless
\* the broadcast is lost
RegisterDeviceOf(sn, isLost, keep) ==
  /\ halted = "no"
  /\ leaf[sn].halted = "no" /\ leaf[sn].deviceMode = "EndPoint"
  /\ leaf[sn].identity < 0
  /\ isLost => missed < MaxMissed
  /\ Becomes(onReceivedValue(State, Packet("register", sn, sn)),
             [op |-> "radio", pkt |-> Packet("register", sn, sn), lost |-> isLost],
             keep)

\* unregisterDevice of leaf sn
UnregisterDeviceOf(sn) ==
  /\ halted = "no"
  /\ leaf[sn].halted = "no" /\ leaf[sn].deviceMode = "EndPoint"
  /\ leaf[sn].identity >= 0
  /\ Becomes(onReceivedValue(State, Packet("del", sn, sn)),
             [op |-> "radio", pkt |-> Packet("del", sn, sn), lost |-> FALSE],
             {"leaf"})

\* a serial line to the gateway, its broadcasts received by the leaves
SerialRelayOf(line) ==
  /\ halted = "no"
  /\ Becomes(onDataReceived(State, line), [op |-> "serial", line |-> line], {"leaf"})

\* a call of addProperty(p, v)
AddPropertyOf(p, v) ==
  /\ halted = "no"
  /\ Becomes(addProperty(State, p, v), [op |-> "addProperty", p |-> p, v |-> v], {})

\* a call of gatewaySendTelemetry(sn, text, num)
AppendTelemetryOf(sn, text, num) ==
  /\ halted = "no"
  /\ Len(appended.telemetry[sn]) <= MaxFed
  /\ Becomes(gatewaySendTelemetry(State, sn, text, num),
             [op |-> "append", stream |-> "telemetry", sn |-> sn, text |-> text,
              num |-> num, fed |-> Append(appended.telemetry[sn], <<text, num>>)],
             {"appended"})

\* a call of gatewaySendProperty(sn, text, num)
AppendPropertyOf(sn, text, num) ==
  /\ halted = "no"
  /\ Len(appended.property[sn]) <= MaxFed
  /\ Becomes(gatewaySendProperty(State, sn, text, num),
             [op |-> "append", stream |-> "property", sn |-> sn, text |-> text,
              num |-> num, fed |-> Append(appended.property[sn], <<text, num>>)],
             {"appended"})

\* ---- the gateway with two leaves: polling, registration, replies, time
Packets ==
  {Packet(nm, 1, sn) : nm \in {"register", "del", "id", "eom"}, sn \in LeafSN}

Tick == TickOp(Readings, {})

RadioValue == \E pkt \in Packets : RadioValueOf(pkt)

Next ==
  \/ SetDeviceMode
  \/ Tick
  \/ RadioValue
  \/ AdvanceTime

Spec == Init /\ [][Next]_vars

\* ---- the gateway started first, and no loss: a tick comes when no request
\* is in flight, and only the leaf that holds the token answers
Register == \E sn \in LeafSN : Started /\ RadioValueOf(Packet("register", 1, sn))

TickIdle == Started /\ ~activeRadioRequest /\ TickOp(Readings, {"pollLog"})

Reply ==
  \E nm \in {"id", "eom"} :
    outstanding # 0 /\ RadioValueOf(Packet(nm, 1, outstanding))

NextNoLoss ==
  \/ SetDeviceMode
  \/ Register
  \/ TickIdle
  \/ Reply

SpecNoLoss == Init /\ [][NextNoLoss]_vars

\* ---- the assembler: the appends of one leaf to its telemetry and its
\* property buffer
\* the leaf whose values are assembled: the first of the leaves
Sender == CHOOSE sn \in LeafSN : \A o \in LeafSN : sn <= o
TelemetryFields == {<<"id", 3>>, <<"temp", 21>>, <<"eom", 1>>}
PropertyFields == {<<"id", 3>>, <<"mode", 2>>, <<"geometry", 1>>, <<"eom", 1>>}

AppendTelemetry == \E f \in TelemetryFields : AppendTelemetryOf(Sender, f[1], f[2])

AppendProperty == \E f \in PropertyFields : AppendPropertyOf(Sender, f[1], f[2])

RegisterSender == Started /\ RadioValueOf(Packet("register", 1, Sender))

NextAsm ==
  \/ SetDeviceMode
  \/ RegisterSender
  \/ AppendTelemetry
  \/ AppendProperty

SpecAsm == Init /\ [][NextAsm]_vars

\* ---- the serial port: lines from the host, registrations, ticks
Lines ==
  {"", "rgb(255,0,0)", "1,2:rgb(255,0,0)", "reset()", "0,1:reset()", "who",
   "a:b:c()", "rgb(1)", "3:who"}

SerialLine == \E line \in Lines : SerialLineOf(line)

NextSerial ==
  \/ SetDeviceMode
  \/ Register
  \/ Tick
  \/ SerialLine

SpecSerial == Init /\ [][NextSerial]_vars

\* ---- the reported properties of the gateway
PropertyNames == {"mode", "level", "color"}
PropertyValues == {1, 2}

AddProperty == \E p \in PropertyNames : \E v \in PropertyValues : AddPropertyOf(p, v)

NextProps ==
  \/ SetDeviceMode
  \/ AddProperty
  \/ Tick

SpecProps == Init /\ [][NextProps]_vars

\* ---- the gateway and its leaves: registration, deactivation, commands
LeafLines ==
  {"1:setId(5,11)", "2:setId(5,11)", "1,2:setId(6,12)", "setId(7,12)",
   "1:reset()", "3:reset()", "who()",
   "foo(1)", "1:foo(1,2)"}

RegisterDevice ==
  \E sn \in LeafSN : \E isLost \in BOOLEAN : RegisterDeviceOf(sn, isLost, {"leaf"})

UnregisterDevice == \E sn \in LeafSN : UnregisterDeviceOf(sn)

SerialRelay == \E line \in LeafLines : SerialRelayOf(line)

NextLeaf ==
  \/ SetDeviceMode
  \/ RegisterDevice
  \/ UnregisterDevice
  \/ SerialRelay

SpecLeaf == Init /\ [][NextLeaf]_vars

\* ---- registration: the loop of registerDevice goes on while the leaf has
\* no identity, and the gateway receives the "register" value of every turn
NextReg ==
  \/ SetDeviceMode
  \/ \E sn \in LeafSN : \E isLost \in BOOLEAN :
       RegisterDeviceOf(sn, isLost, {"leaf", "beat"})
  \/ UnregisterDevice
  \/ Tick

\* a turn of the loop of registerDevice on leaf sn: the steps of NextReg that
\* change beat.loop[sn] are those of RegisterDeviceOf(sn, ...)
RegisterTurn(sn) ==
  /\ halted = "no"
  /\ leaf[sn].halted = "no" /\ leaf[sn].deviceMode = "EndPoint"
  /\ leaf[sn].identity < 0
  /\ beat' = [beat EXCEPT !.loop[sn] = 1 - @]

SpecReg ==
  /\ Init /\ [][NextReg]_vars
  /\ \A sn \in LeafSN : WF_beat(RegisterTurn(sn))

\* ---- polling: ticks and the clock go on, the leaves without an identity
\* send "register", a polled leaf may answer with its terminator
NextPoll ==
  \/ SetDeviceMode
  \/ TickOp(Readings, {"beat"})
  \/ ElapseOp({"beat"})
  \/ \E sn \in LeafSN : \E isLost \in BOOLEAN :
       RegisterDeviceOf(sn, isLost, {"leaf", "beat"})
  \/ RadioValueOf(Packet("eom", 1, Sender))

\* a tick, a step of the clock: the steps of NextPoll that change beat.tick
\* are those of TickOp, the steps that change beat.time those of ElapseOp
TickTurn ==
  /\ halted = "no"
  /\ packet_loss < MaxLoss
  /\ beat' = [beat EXCEPT !.tick = 1 - @]

ElapseTurn ==
  /\ halted = "no"
  /\ beat' = [beat EXCEPT !.time = 1 - @]

SpecPoll ==
  /\ Init /\ [][NextPoll]_vars
  /\ WF_beat(TickTurn)
  /\ WF_beat(ElapseTurn)

\* ---- the poll cycle: the token of a tick reaches the leaves, the polled leaf
\* sends its values, which the gateway receives one by one, the terminator
\* unless it is lost; the clock is read again when no value is on the air
\* the gateway receives the value leaf sn has sent first, no property buffer
\* holding more than MaxFields fields
DeliverOf(sn) ==
  /\ halted = "no"
  /\ leaf[sn].radioOut # <<>>
  /\ \E p \in {Head(leaf[sn].radioOut)} :
     \E x \in {onReceivedValue(State, Packet(p.name, p.value, sn))} :
       /\ \A i \in 1..Len(x.device_property) :
            count(x.device_property[i], ":") <= MaxFields + 1
       /\ Becomes(x,
                  [op |-> "radio", pkt |-> Packet(p.name, p.value, sn),
                   leaves |-> [leaf EXCEPT ![sn].radioOut = Tail(@)]],
                  {})

\* the terminator of leaf sn is lost on the radio
DropOf(sn) ==
  /\ halted = "no"
  /\ leaf[sn].radioOut # <<>>
  /\ Head(leaf[sn].radioOut).name = "eom"
  /\ missed < MaxMissed
  /\ \E p \in {Head(leaf[sn].radioOut)} :
       Becomes(State,
               [op |-> "drop", pkt |-> Packet(p.name, p.value, sn), lost |-> TRUE,
                leaves |-> [leaf EXCEPT ![sn].radioOut = Tail(@)]],
               {})

\* leaf sn calls addProperty(p, v) before it registers
LeafAddPropertyOf(sn, p, v) ==
  /\ halted = "no"
  /\ leaf[sn].identity < 0 /\ indexOf(device_registrar, sn) < 0
  /\ Becomes(State,
             [op |-> "leafAddProperty", sn |-> sn,
              leaves |-> [leaf EXCEPT ![sn] = addProperty(@, p, v)]],
             {})

\* leaf sn calls sendTelemetry(b) before it registers
LeafSendTelemetryOf(sn, b) ==
  /\ halted = "no"
  /\ leaf[sn].identity < 0 /\ indexOf(device_registrar, sn) < 0
  /\ Becomes(State,
             [op |-> "leafSendTelemetry", sn |-> sn,
              leaves |-> [leaf EXCEPT ![sn] = sendTelemetry(@, b)]],
             {})

NextCycle ==
  \/ SetDeviceMode
  \/ \E sn \in LeafSN : \E isLost \in BOOLEAN : RegisterDeviceOf(sn, isLost, {"leaf"})
  \/ TickOp(Readings, {"leaf", "air"})
  \/ (\A sn \in LeafSN : leaf[sn].radioOut = <<>>) /\ AdvanceTime
  \/ \E sn \in LeafSN : DeliverOf(sn)
  \/ \E sn \in LeafSN : DropOf(sn)
  \/ LeafAddPropertyOf(Sender, "mode", 2)
  \/ \E b \in BOOLEAN : LeafSendTelemetryOf(Sender, b)

SpecCycle == Init /\ [][NextCycle]_vars

\* ---- the two gateway modules side by side: every tick and every radio value
\* is given to the program of namespace IoT and to that of IoT_gateway
\* the other gateway as a handler finds it: the clock is shared, nothing is
\* written yet
Resumed(st) == [st EXCEPT !.now = now, !.serialOut = <<>>, !.radioOut = <<>>]

TickBoth ==
  /\ halted = "no"
  /\ packet_loss < MaxLoss /\ twin.other.packet_loss < MaxLoss
  /\ \E r \in Readings :
       Becomes(runGatewayOrchestrator(State, r),
               [op |-> "tick",
                twin |-> [twin EXCEPT !.other =
                            IoT_gateway_runGatewayOrchestrator(Resumed(@), r)]],
               {})

RadioValueBothOf(pkt) ==
  /\ halted = "no"
  /\ Fits(onReceivedValue(State, pkt))
  /\ Fits(IoT_gateway_onReceivedValue(Resumed(twin.other), pkt))
  /\ Becomes(onReceivedValue(State, pkt),
             [op |-> "radio", pkt |-> pkt,
              twin |-> [twin EXCEPT !.other =
                          IoT_gateway_onReceivedValue(Resumed(@), pkt)]],
             {})

NextTwin ==
  \/ SetDeviceMode
  \/ TickBoth
  \/ \E nm \in {"register", "id", "eom"} : RadioValueBothOf(Packet(nm, 1, Sender))
  \/ AdvanceTime

SpecTwin == Init /\ [][NextTwin]_vars

\* ---- the fibers of the gateway: a call of runGatewayOrchestrator and the
\* handler of the radio values of one leaf, each run from pause to pause
\* the program with debug off handles the call of fiber f and is in state st.
\* Without debug() a handler pauses only in a flush, basic.pause(delay) after
\* each line it writes, and delay is the 20 ms of the pause of debug(): with
\* k > 0 lines it ends 20 * k ms after the call, which is before the fiber f
\* of the program with debug on starts its pause k + 1. A call that comes
\* earlier finds the handler running: the state st is then not exact.
QuietCall(tw, f, st) ==
  [tw EXCEPT !.quiet = st,
             !.due[f] = IF st.serialOut = <<>> THEN 0 ELSE Len(st.serialOut) + 1,
             !.exact = @ /\ tw.due.tick = 0 /\ tw.due.radio = 0]

\* the twin after fiber f has run instruction ins: a call is given to the
\* program with debug off too; a pause of f is one pause less to wait for
Quiet(tw, f, ins, r, yield, done) ==
  IF ins.op = "late?"
  THEN QuietCall(tw, "tick", runGatewayOrchestrator(Resumed(tw.quiet), r))
  ELSE IF ins.op = "receive"
  THEN QuietCall(tw, "radio",
                 onReceivedValue(Resumed(tw.quiet), Packet(ins.s, ins.v[2], ins.v[1])))
  ELSE [tw EXCEPT !.due[f] = IF done /\ @ <= 1 THEN 0
                             ELSE IF yield /\ @ > 0 THEN @ - 1 ELSE @]

\* setDeviceMode(Mode.Gateway), called with debug on and with debug off
SetDeviceModeBoth ==
  /\ halted = "no"
  /\ Becomes(setDeviceMode(State, "Gateway"),
             [op |-> "setDeviceMode",
              twin |-> [twin EXCEPT !.quiet = setDeviceMode(Resumed(@), "Gateway")]],
             {})

\* fiber f runs instruction ins, rest is what it has to do after it
Exec(f, ins, rest) ==
  /\ halted = "no"
  /\ fiber.run \in {"none", f}
  /\ \E r \in Readings : \E x \in {exec(State, ins, r)} :
       Becomes(x.st,
               [op |-> "step", who |-> f, ins |-> ins,
                twin |-> Quiet(twin, f, ins, r, x.yield, x.push \o rest = <<>>),
                fibers |-> [fiber EXCEPT
                              ![f] = x.push \o rest,
                              !.run = IF x.yield \/ x.push \o rest = <<>>
                                      THEN "none" ELSE f,
                              !.calls = IF ins.op = "receive" THEN @ + 1 ELSE @]],
               {})

\* a fiber goes on
Resume ==
  \E f \in {"tick", "radio"} :
    fiber[f] # <<>> /\ Exec(f, Head(fiber[f]), Tail(fiber[f]))

\* the program calls runGatewayOrchestrator, no buffer holding more than
\* MaxFields fields
TickCall ==
  /\ fiber.tick = <<>>
  /\ \A i \in 1..Len(device_telemetry) :
       device_telemetry[i] # null => count(device_telemetry[i], ":") <= MaxFields + 1
  /\ Exec("tick", Ins("late?", "", <<>>), <<Ins("idle?", "", <<>>)>>)

\* a radio value of the leaf Sender arrives, its handler not running: its
\* "register", and, once it is registered, the values of a message
RadioCall ==
  \E nm \in {"register", "id", "eom"} :
    /\ Started
    /\ fiber.radio = <<>>
    /\ fiber.calls < MaxCalls
    /\ nm # "register" =>
         /\ indexOf(device_registrar, Sender) >= 0
         /\ \A i \in 2..Len(device_telemetry) :
              device_telemetry[i] # null
                => count(device_telemetry[i], ":") <= MaxFields + 1
    /\ Exec("radio", Ins("receive", nm, <<Sender, 1>>), <<>>)

NextFibers ==
  \/ fiber.tick = <<>> /\ fiber.radio = <<>> /\ SetDeviceModeBoth
  \/ TickCall
  \/ RadioCall
  \/ Resume

SpecFibers == Init /\ [][NextFibers]_vars

\* ================================================================ properties
\* the serial number the poll cursor addresses, 0 if it addresses none
cursorTarget ==
  IF microbit_ID # NaN /\ microbit_ID >= 0 /\ microbit_ID < Len(device_registrar)
  THEN device_registrar[microbit_ID + 1] ELSE 0

\* the slot a polling step goes to
nextSlot == advance(microbit_ID, Len(device_registrar))

startsWith(s, p) == Len(s) >= Len(p) /\ SubSeq(s, 1, Len(p)) = p

\* the text of the fields, each after a separator
RECURSIVE renderFields(_)
renderFields(fields) ==
  IF fields = <<>> THEN ""
  ELSE ",\"" \o Head(fields)[1] \o "\":" \o numToStr(Head(fields)[2])
       \o renderFields(Tail(fields))

\* the object of a stream with the given fields
object(topic, fields) == "{\"topic\":\"" \o topic \o "\"" \o renderFields(fields) \o "}"

\* the fields from the first "id" on
RECURSIVE fromFirstId(_)
fromFirstId(fields) ==
  IF fields = <<>> THEN <<>>
  ELSE IF Head(fields)[1] = "id" THEN fields ELSE fromFirstId(Tail(fields))

\* the broadcasts the serial line asks for
fanOut(line) ==
  LET t0 == split(line, ":")
  IN IF Len(t0) = 1 THEN <<line>>
     ELSE LET t1 == split(t0[1], ",")
          IN [i \in 1..Len(t1) |-> t1[i] \o ":" \o t0[2]]

\* C1: loss accounting. packet_loss counts the tokens that were issued and
\* abandoned without their terminator, whatever the cursor moves to next: a
\* step increases packet_loss only by one, and only when it is a tick that
\* finds a token outstanding.
C1_LossOnlyForAbandonedToken ==
  [][(Started /\ ~ev'.reset /\ packet_loss' # packet_loss)
       => (packet_loss' = packet_loss + 1 /\ ev'.op = "tick" /\ outstanding # 0)]_vars

\* C2: a received radio value clears the in-flight flag only when it is the
\* terminator "eom" sent by the identity the poll cursor addresses.
C2_OnlyCurrentTerminatorClearsInFlight ==
  [][(Started /\ ev'.op = "radio" /\ activeRadioRequest /\ ~activeRadioRequest')
       => (ev'.pkt.name = "eom" /\ ev'.pkt.sn = cursorTarget)]_vars

\* C3: round-robin completeness. With no losses every tick polls the device
\* after the one polled before, in cyclic order of the ids, and any window of
\* N ticks over a registrar of N devices polls each of the N devices once.
C3_RoundRobinNoLoss ==
  /\ \A i \in 1..Len(pollLog) - 1 :
       indexOf(device_registrar, pollLog[i + 1][1])
         = (indexOf(device_registrar, pollLog[i][1]) + 1) % pollLog[i + 1][2]
  /\ \A i \in 1..Len(pollLog) : \A N \in 1..Len(pollLog) :
       (i + N - 1 <= Len(pollLog) /\ \A j \in i..i + N - 1 : pollLog[j][2] = N)
         => {pollLog[j][1] : j \in i..i + N - 1} = {device_registrar[k] : k \in 1..N}

\* three ticks have polled the two leaves and then, wrapping, the gateway
C3_Witness ==
  pollLog = << <<11, 3>>, <<12, 3>>, <<GatewaySN, 3>> >>

\* C4: registration is idempotent. A "register" value from a serial number
\* that is in the registrar keeps its id, leaves the registrar and the three
\* buffer tables unchanged and broadcasts no setId; one from a new serial
\* number appends it and broadcasts setId(id, sn) once. So every registered
\* serial number was sent exactly one assignment in total.
C4_IdempotentRegistration ==
  [][/\ (ev'.op = "radio" /\ ev'.pkt.name = "register") =>
          LET sn == ev'.pkt.sn
              id == indexOf(device_registrar, sn)
          IN IF id >= 0
             THEN /\ indexOf(device_registrar', sn) = id
                  /\ device_registrar' = device_registrar
                  /\ device_telemetry' = device_telemetry
                  /\ device_property' = device_property
                  /\ device_log' = device_log
                  /\ radioOut' = <<>>
             ELSE /\ device_registrar' = Append(device_registrar, sn)
                  /\ radioOut' = <<[kind |-> "string",
                                    text |-> "setId(" \o numToStr(Len(device_registrar))
                                             \o "," \o numToStr(sn) \o ")"]>>
     /\ \A sn \in Nodes :
          assigned'[sn] = IF indexOf(device_registrar', sn) >= 0 THEN 1 ELSE 0]_vars

\* a leaf has registered a second time, after other handlers have run
C4_Witness ==
  /\ ev.op = "radio" /\ ev.pkt.name = "register"
  /\ radioOut = <<>>
  /\ assigned[ev.pkt.sn] = 1
  /\ indexOf(device_registrar, ev.pkt.sn) = 2
  /\ activeRadioRequest

\* C5: a buffer is flushed once per terminator key: no append of a key other
\* than "eom" flushes a line, also not one of a key that contains "eom".
C5_FlushOnlyOnTerminator ==
  [][(ev'.op = "append" /\ messages(serialOut') # <<>>) => ev'.text = "eom"]_vars

\* C6: the identity guard of the telemetry stream. A field given to a buffer
\* that holds no "id" is dropped unless its key is "id"; every telemetry line
\* flushed has "id" as its first field; id:3, temp:21, eom:1, also after
\* dropped fields, flushes {"topic":"telemetry","id":3,"temp":21,"eom":1}.
C6_TelemetryIdentityGuard ==
  [][(ev'.op = "append" /\ ev'.stream = "telemetry" /\ halted' = "no") =>
       LET i == indexOf(device_registrar, ev'.sn) + 1
           kept == fromFirstId(ev'.fed)
       IN /\ kept = <<>> =>
               /\ messages(serialOut') = <<>>
               /\ count(device_telemetry'[i], ":") = 1
          /\ \A k \in 1..Len(messages(serialOut')) :
               startsWith(messages(serialOut')[k], "{\"topic\":\"telemetry\",\"id\":")
          /\ kept = << <<"id", 3>>, <<"temp", 21>>, <<"eom", 1>> >> =>
               messages(serialOut')
                 = << "{\"topic\":\"telemetry\",\"id\":3,\"temp\":21,\"eom\":1}" >>]_vars

\* temp:21 was dropped, then id:3, temp:21, eom:1 have flushed the line
C6_Witness ==
  /\ ev.op = "append" /\ ev.stream = "telemetry"
  /\ ev.fed = << <<"temp", 21>>, <<"id", 3>>, <<"temp", 21>>, <<"eom", 1>> >>
  /\ messages(serialOut) = << "{\"topic\":\"telemetry\",\"id\":3,\"temp\":21,\"eom\":1}" >>

\* C7 as stated: buffer closure atomicity. The terminator appended to a buffer
\* that holds the fields k1..kn flushes one line of the topic, k1..kn and
\* "eom":1 and resets the buffer to its template; the next append after the
\* closure starts an object of the topic and the new field only.
C7_ClosureAtomicity ==
  [][(ev'.op = "append" /\ halted' = "no") =>
       LET i == indexOf(device_registrar, ev'.sn) + 1
           tel == ev'.stream = "telemetry"
           buffer == IF tel THEN device_telemetry'[i] ELSE device_property'[i]
           template == IF tel THEN init_telemetry ELSE init_property
           lines == messages(serialOut')
           started == IF lines # <<>> THEN lines[1] ELSE buffer
           kept == IF tel THEN fromFirstId(ev'.fed) ELSE ev'.fed
           closed == /\ ev.op = "append" /\ ev.stream = ev'.stream /\ ev.sn = ev'.sn
                     /\ ev.text = "eom" /\ messages(serialOut) # <<>>
       IN /\ (ev'.text = "eom" /\ kept # <<>>) =>
               (lines = <<object(ev'.stream, kept)>> /\ buffer = template)
          /\ closed => started = object(ev'.stream, ev'.fed)]_vars

\* C7 amended: the fields of a telemetry buffer are the ones it was given from
\* the first "id" on, and the first append after a closure of a telemetry
\* buffer starts an object only if its key is "id": any other field is dropped
\* and the buffer is left as the topic and a separator.
C7_ClosureAtomicityGuarded ==
  [][(ev'.op = "append" /\ halted' = "no") =>
       LET i == indexOf(device_registrar, ev'.sn) + 1
           tel == ev'.stream = "telemetry"
           buffer == IF tel THEN device_telemetry'[i] ELSE device_property'[i]
           template == IF tel THEN init_telemetry ELSE init_property
           lines == messages(serialOut')
           started == IF lines # <<>> THEN lines[1] ELSE buffer
           kept == IF tel THEN fromFirstId(ev'.fed) ELSE ev'.fed
       IN /\ (ev'.text = "eom" /\ kept # <<>>) =>
               (lines = <<object(ev'.stream, kept)>> /\ buffer = template)
          /\ Len(ev'.fed) = 1 =>
               IF tel /\ ev'.text # "id"
               THEN lines = <<>> /\ buffer = "{\"topic\":\"telemetry\","
               ELSE started = object(ev'.stream, ev'.fed)]_vars

\* the terminator has closed a property buffer that held id:3 and mode:2
C7_Witness ==
  /\ ev.op = "append" /\ ev.stream = "property"
  /\ ev.fed = << <<"id", 3>>, <<"mode", 2>>, <<"eom", 1>> >>
  /\ messages(serialOut) = << "{\"topic\":\"property\",\"id\":3,\"mode\":2,\"eom\":1}" >>
  /\ device_property[indexOf(device_registrar, ev.sn) + 1] = init_property
  /\ appended.property[ev.sn] = <<>>

\* C8: addressed fan-out. A serial line a1,...,an:CALL is broadcast as the n
\* strings ai:CALL in the order of the addresses, a line without ":" as one
\* string equal to the line.
C8_AddressedFanOut ==
  [][(/\ Started
      /\ ev'.op = "serial"
      /\ ev'.line # ""
      /\ Len(split(ev'.line, ":")) <= 2
      /\ includes(ev'.line, "("))
       => strings(radioOut') = fanOut(ev'.line)]_vars

\* C9: the poll cursor is changed only by a polling step, which sets it to
\* (cursor + 1) mod the length of the registrar.
C9_CursorChangedOnlyByPolling ==
  [][(Started /\ microbit_ID' # microbit_ID /\ ~ev'.reset /\ halted' = "no")
       => (ev'.op = "tick" /\ microbit_ID' = nextSlot)]_vars

\* C10: a telemetry, property or terminator value from a sender that is not in
\* the registrar is dropped: no buffer changes, no line is flushed, the cursor
\* and the in-flight flag are unchanged and the program does not stop.
C10_UnknownSenderDropped ==
  [][(/\ Started
      /\ ev'.op = "radio"
      /\ ev'.pkt.name \notin {"register", "del"}
      /\ indexOf(device_registrar, ev'.pkt.sn) < 0)
       => (/\ device_telemetry' = device_telemetry
           /\ device_property' = device_property
           /\ device_log' = device_log
           /\ messages(serialOut') = <<>>
           /\ microbit_ID' = microbit_ID
           /\ activeRadioRequest' = activeRadioRequest
           /\ halted' = "no")]_vars

\* the broadcasts of a serial line whose addresses end at its first ":"
fanOutFirst(line) ==
  LET t0 == split(line, ":")
      call == SubSeq(line, Len(t0[1]) + 2, Len(line))
      t1 == split(t0[1], ",")
  IN IF Len(t0) = 1 THEN <<line>> ELSE [i \in 1..Len(t1) |-> t1[i] \o ":" \o call]

\* C11: every serial line that is not empty is broadcast, as it is when it has
\* no address and once per address otherwise, the addresses ending at the
\* first ":" of the line, also when the call holds a ":" itself.
C11_EveryLineRelayed ==
  [][(Started /\ ev'.op = "serial" /\ ev'.line # "" /\ halted' = "no" /\ ~ev'.reset)
       => strings(radioOut') = fanOutFirst(ev'.line)]_vars

\* C12: a command with missing parentheses or missing arguments is no error:
\* the serial line that carries it (one that does not ask for a reset) leaves
\* the gateway running and is broadcast like any other line.
C12_MalformedCommandHarmless ==
  [][(/\ Started
      /\ ev'.op = "serial"
      /\ ev'.line # ""
      /\ Len(split(ev'.line, ":")) <= 2
      /\ ~includes(ev'.line, "reset"))
       => (halted' = "no" /\ strings(radioOut') = fanOut(ev'.line))]_vars

\* C13: slot 0 of the registrar is the gateway: whenever the registrar is not
\* empty its first entry is the serial number of the gateway, whatever the
\* order of the "register" values of the leaves and the start of the gateway.
C13_SlotZeroIsGateway ==
  device_registrar # <<>> => device_registrar[1] = GatewaySN

\* no serial number occurs twice in a
unique(a) == \A i \in 1..Len(a) : \A j \in 1..Len(a) : a[i] = a[j] => i = j

\* C14: the registrar is append-only with unique identities: no step of the
\* running program removes or moves an entry, an entry keeps its position,
\* also when it is deactivated, and no serial number occurs twice.
C14_RegistrarAppendOnly ==
  [][~ev'.reset =>
       /\ Len(device_registrar') >= Len(device_registrar)
       /\ SubSeq(device_registrar', 1, Len(device_registrar)) = device_registrar
       /\ unique(device_registrar')
       /\ Len(device_telemetry') = Len(device_registrar')
       /\ Len(device_property') = Len(device_registrar')
       /\ Len(device_log') = Len(device_registrar')]_vars

\* leaf 11 was deactivated and keeps slot 1; leaf 12 has registered after it
C14_Witness ==
  /\ device_registrar = <<GatewaySN, 11, 12>>
  /\ device_telemetry[2] = null
  /\ ev.op = "radio" /\ ev.pkt.name = "register" /\ ev.pkt.sn = 12
  /\ radioOut # <<>>

\* C15 as stated: a "register" value from a serial number that is in the
\* registrar changes no registrar or buffer state, and setId(id, sn) is
\* broadcast again.
C15_ReRegistrationResends ==
  [][(/\ Started
      /\ ev'.op = "radio" /\ ev'.pkt.name = "register"
      /\ indexOf(device_registrar, ev'.pkt.sn) >= 0
      /\ halted' = "no")
       => (/\ device_registrar' = device_registrar
           /\ device_telemetry' = device_telemetry
           /\ device_property' = device_property
           /\ device_log' = device_log
           /\ strings(radioOut')
                = <<"setId(" \o numToStr(indexOf(device_registrar, ev'.pkt.sn))
                    \o "," \o numToStr(ev'.pkt.sn) \o ")">>)]_vars

\* C15 amended: a "register" value from a serial number that is in the
\* registrar changes no registrar or buffer state (a deactivated entry stays
\* deactivated) and nothing is broadcast: the assignment is sent only once.
C15_ReRegistrationSilent ==
  [][(/\ Started
      /\ ev'.op = "radio" /\ ev'.pkt.name = "register"
      /\ indexOf(device_registrar, ev'.pkt.sn) >= 0
      /\ halted' = "no")
       => (/\ device_registrar' = device_registrar
           /\ device_telemetry' = device_telemetry
           /\ device_property' = device_property
           /\ device_log' = device_log
           /\ microbit_ID' = microbit_ID
           /\ activeRadioRequest' = activeRadioRequest
           /\ radioOut' = <<>>)]_vars

\* a deactivated leaf has registered again: no answer, still deactivated
C15_Witness ==
  /\ Started
  /\ ev.op = "radio" /\ ev.pkt.name = "register"
  /\ indexOf(device_registrar, ev.pkt.sn) >= 1
  /\ device_telemetry[indexOf(device_registrar, ev.pkt.sn) + 1] = null
  /\ radioOut = <<>>
  /\ assigned[ev.pkt.sn] = 1

\* C16: deactivation is idempotent. A "del" value from an active serial number
\* marks its entry inactive and broadcasts setId(-1, sn) once; one from an
\* inactive or unknown serial number changes nothing and broadcasts nothing.
C16_DeactivationIdempotent ==
  [][(ev'.op = "radio" /\ ev'.pkt.name = "del" /\ halted' = "no") =>
       LET sn == ev'.pkt.sn
           id == indexOf(device_registrar, sn)
       IN /\ device_registrar' = device_registrar
          /\ device_property' = device_property
          /\ device_log' = device_log
          /\ microbit_ID' = microbit_ID
          /\ activeRadioRequest' = activeRadioRequest
          /\ packet_loss' = packet_loss
          /\ IF id >= 0 /\ device_telemetry[id + 1] # null
             THEN /\ device_telemetry' = [device_telemetry EXCEPT ![id + 1] = null]
                  /\ strings(radioOut') = <<"setId(-1," \o numToStr(sn) \o ")">>
             ELSE /\ device_telemetry' = device_telemetry
                  /\ radioOut' = <<>>]_vars

\* an inactive leaf was deactivated once more: nothing was broadcast
C16_Witness ==
  /\ Started
  /\ ev.op = "radio" /\ ev.pkt.name = "del"
  /\ indexOf(device_registrar, ev.pkt.sn) >= 1
  /\ device_telemetry[indexOf(device_registrar, ev.pkt.sn) + 1] = null
  /\ radioOut = <<>>

\* the cursor addresses a slot of the registrar whose device is deactivated
onDeactivated(id, telemetry) ==
  id # NaN /\ id >= 0 /\ id < Len(telemetry) /\ telemetry[id + 1] = null

\* C17: a deactivated device is not polled. No step sends a token to a serial
\* number whose entry is inactive or sets the in-flight flag with the cursor
\* on such an entry; a polling step that lands on one sends nothing, writes
\* no message and leaves the in-flight flag as it is.
C17_DeactivatedNotPolled ==
  [][(Started /\ halted' = "no" /\ ~ev'.reset) =>
       /\ tokenOf(radioOut') # 0 =>
            /\ indexOf(device_registrar', tokenOf(radioOut')) >= 1
            /\ device_telemetry'[indexOf(device_registrar', tokenOf(radioOut')) + 1] # null
       /\ (~activeRadioRequest /\ activeRadioRequest') =>
            ~onDeactivated(microbit_ID', device_telemetry')
       /\ (ev'.op = "tick" /\ tickMoves /\ onDeactivated(microbit_ID', device_telemetry')) =>
            /\ radioOut' = <<>>
            /\ messages(serialOut') = <<>>
            /\ activeRadioRequest' = activeRadioRequest]_vars

\* a polling step has moved the cursor to the slot of a deactivated leaf
C17_Witness ==
  /\ Started
  /\ ev.op = "tick"
  /\ microbit_ID >= 1
  /\ onDeactivated(microbit_ID, device_telemetry)
  /\ radioOut = <<>>
  /\ ~activeRadioRequest

\* C18: a telemetry, property or terminator value from a deactivated serial
\* number is skipped: no line is flushed, its entry stays inactive and the
\* program does not stop.
C18_DeactivatedSenderSkipped ==
  [][(/\ Started
      /\ ev'.op = "radio"
      /\ ev'.pkt.name \notin {"register", "del"}
      /\ indexOf(device_registrar, ev'.pkt.sn) >= 0
      /\ device_telemetry[indexOf(device_registrar, ev'.pkt.sn) + 1] = null)
       => (/\ halted' = "no"
           /\ messages(serialOut') = <<>>
           /\ device_telemetry'[indexOf(device_registrar, ev'.pkt.sn) + 1] = null)]_vars

\* the tokens among the packets out
tokens(out) == SelectSeq(out, LAMBDA p : p.kind = "value" /\ p.name = "token")

\* C19: the tick after the deadline of the request in flight moves the cursor
\* one slot on, past the device that did not answer, and issues the next
\* request in the same tick: a token to the leaf of the new slot, the
\* gateway's own message for slot 0; the device that timed out is sent no
\* second token.
C19_TimeoutAdvancesOnce ==
  [][(/\ Started
      /\ ev'.op = "tick"
      /\ activeRadioRequest /\ now > timerRadioRequest
      /\ outstanding # 0
      /\ halted' = "no")
       => (/\ microbit_ID' = nextSlot
           /\ indexOf(device_registrar, outstanding) = microbit_ID
           /\ Len(tokens(radioOut')) <= 1
           /\ tokenOf(radioOut') # outstanding
           /\ (microbit_ID' = 0) => messages(serialOut') # <<>>
           /\ (microbit_ID' > 0 /\ ~onDeactivated(microbit_ID', device_telemetry')) =>
                tokenOf(radioOut') = device_registrar[microbit_ID' + 1])]_vars

\* C20: no request is in flight after a tick that has timed a request out and
\* moved the cursor to the gateway's slot or to a deactivated slot.
C20_NotInFlightAfterTimeoutToGateway ==
  [][(/\ Started
      /\ ev'.op = "tick"
      /\ activeRadioRequest /\ now > timerRadioRequest
      /\ halted' = "no"
      /\ (microbit_ID' = 0 \/ onDeactivated(microbit_ID', device_telemetry')))
       => ~activeRadioRequest']_vars

\* the address of a broadcast string, "" if it has none
addressOf(s) == IF Len(split(s, ":")) = 2 THEN split(s, ":")[1] ELSE ""

\* C21: a leaf runs an addressed command only if the address is its id, and
\* an assignment setId(i, v) changes the identity of the node with serial
\* number v only. A leaf none of the addresses of a relayed line names is
\* left as it was; a registration or deactivation of one leaf leaves the
\* other leaves as they were; a leaf that runs 1:setId(5,11) has id 1 and
\* serial number 11.
C21_AddressedCommandsAndSetId ==
  [][\A sn \in LeafSN :
       /\ (/\ ev'.op = "serial"
           /\ strings(radioOut') # <<>>
           /\ \A i \in 1..Len(strings(radioOut')) :
                /\ addressOf(strings(radioOut')[i]) # ""
                /\ ~numEq(parseFloat(addressOf(strings(radioOut')[i])), leaf[sn].identity))
            => leaf'[sn] = leaf[sn]
       /\ (ev'.op = "radio" /\ ev'.pkt.sn # sn) => leaf'[sn] = leaf[sn]
       /\ (ev'.op = "radio" /\ ev'.pkt.sn = sn /\ ~lost(ev')
             /\ \E i \in 0..3 : strings(radioOut')
                  = <<"setId(" \o numToStr(i) \o "," \o numToStr(sn) \o ")">>)
            => strings(radioOut')
                 = <<"setId(" \o numToStr(leaf'[sn].identity) \o "," \o numToStr(sn) \o ")">>
       /\ (ev'.op = "serial" /\ ev'.line = "1:setId(5,11)"
             /\ leaf'[sn].identity # leaf[sn].identity)
            => (sn = 11 /\ leaf[sn].identity = 1 /\ leaf'[sn].identity = 5)]_vars

\* leaf 12 has registered as id 2 while leaf 11 keeps its id 1
C21_Witness ==
  /\ ev.op = "radio" /\ ev.pkt.name = "register" /\ ev.pkt.sn = 12
  /\ strings(radioOut) = <<"setId(2,12)">>
  /\ leaf[12].identity = 2
  /\ leaf[11].identity = 1

\* C22: the reported properties keep unique names, last write wins. After
\* every step propString holds no name twice and is as long as propValue;
\* addProperty(p, v) leaves p once in propString with the value v, and every
\* other name at its place with its value.
C22_ReportedPropertiesLastWriteWins ==
  [][/\ unique(propString')
     /\ Len(propString') = Len(propValue')
     /\ ev'.op = "addProperty" =>
          /\ indexOf(propString', ev'.p) >= 0
          /\ propValue'[indexOf(propString', ev'.p) + 1] = ev'.v
          /\ \A i \in 1..Len(propString) :
               /\ propString'[i] = propString[i]
               /\ propString[i] # ev'.p => propValue'[i] = propValue[i]
          /\ Len(propString') = Len(propString)
                                  + (IF indexOf(propString, ev'.p) < 0 THEN 1 ELSE 0)]_vars

\* "mode" was written a second time, after "level" had been added
C22_Witness ==
  /\ ev.op = "addProperty" /\ ev.p = "mode" /\ ev.v = 2
  /\ propString = <<"mode", "level">>
  /\ propValue = <<2, 1>>

\* C23: a command with a name that is not in the catalog does nothing. A
\* serial line NAME(...) or a:NAME(...) with parentheses and a NAME outside the
\* catalog leaves the gateway running, with its identity, registrar, buffers,
\* cursor, in-flight flag, deadline, loss counter and properties as they
\* were, and so every leaf that receives it, addressed or not.
C23_UnknownCommandNoOp ==
  [][(/\ ev'.op = "serial"
      /\ LET t0 == split(ev'.line, ":")
             t1 == split(t0[Len(t0)], "(")
         IN /\ Len(t0) <= 2
            /\ Len(t1) = 2
            /\ includes(t1[2], ")")
            /\ t1[1] \notin catalog)
       => /\ halted' = "no"
          /\ ~ev'.reset
          /\ UNCHANGED <<deviceMode, identity, device_registrar, device_telemetry,
                         device_property, device_log, packet_loss, timerRadioRequest,
                         microbit_ID, activeRadioRequest, propString, propValue>>
          /\ leaf' = leaf]_vars

\* the leaf with id 1 has received 1:foo(1,2) and runs on
C23_Witness ==
  /\ ev.op = "serial" /\ ev.line = "1:foo(1,2)"
  /\ strings(radioOut) = <<"1:foo(1,2)">>
  /\ halted = "no"
  /\ \E sn \in LeafSN : leaf[sn].identity = 1 /\ leaf[sn].halted = "no"

\* C24: registerDevice ends. With the gateway started and receiving the
\* "register" value of every turn of the loop, a leaf without an identity gets
\* one (identity >= 0), also after a setId that was lost on the radio and
\* after a "del".
C24_RegisterDeviceTerminates ==
  \A sn \in LeafSN :
    (Started /\ halted = "no" /\ leaf[sn].identity < 0) ~> (leaf[sn].identity >= 0)

\* C25: every request in flight ends. With ticks and the clock going on, a
\* request in flight is answered by the terminator of the polled leaf or
\* counted as lost (the loss counter grows and the cursor moves on), also
\* while leaves keep sending radio values to the gateway.
C25_InFlightRequestEnds ==
  \A n \in 0..(MaxLoss - 1) :
    (Started /\ halted = "no" /\ activeRadioRequest /\ packet_loss = n)
      ~> (~activeRadioRequest \/ packet_loss > n \/ halted # "no")

\* C29: a tick while a request is in flight and its deadline has not passed
\* does nothing: the cursor, the flag, the deadline, the loss counter, the
\* registrar and the buffers stay as they are, nothing is broadcast and
\* nothing is written, at every such tick.
C29_TickInFlightNoOp ==
  [][(/\ ev'.op = "tick"
      /\ deviceMode = "Gateway"
      /\ activeRadioRequest
      /\ ~(now > timerRadioRequest))
       => /\ UNCHANGED <<microbit_ID, activeRadioRequest, timerRadioRequest, packet_loss,
                         device_registrar, device_telemetry, device_property,
                         device_log, identity, halted>>
          /\ radioOut' = <<>>
          /\ serialOut' = <<>>]_vars

\* a tick has found the request to a leaf in flight and sent nothing
C29_Witness ==
  /\ ev.op = "tick"
  /\ activeRadioRequest /\ ~(now > timerRadioRequest)
  /\ cursorTarget \in LeafSN
  /\ radioOut = <<>>

\* C30: a polling step that goes to slot 0 is complete when the tick returns:
\* it sends no token and leaves the in-flight flag as it was, it writes one
\* telemetry line, which begins with id 0 and the serial number of the
\* gateway, and the telemetry buffer of the gateway is the template again;
\* the tick after it moves the cursor to the slot after 0.
C30_GatewayPollSynchronous ==
  [][/\ (Started /\ ev'.op = "tick" /\ tickMoves /\ nextSlot = 0 /\ halted' = "no") =>
          LET telemetry == SelectSeq(serialOut',
                                     LAMBDA l : includes(l, "\"topic\":\"telemetry\""))
          IN /\ tokenOf(radioOut') = 0
             /\ activeRadioRequest' = activeRadioRequest
             /\ microbit_ID' = 0
             /\ doTelemetry =>
                  /\ Len(telemetry) = 1
                  /\ startsWith(telemetry[1],
                                "{\"topic\":\"telemetry\",\"id\":0,\"sn\":"
                                \o numToStr(GatewaySN) \o ",")
             /\ device_telemetry'[1] = init_telemetry
     /\ (/\ Started /\ halted = "no"
         /\ ev.op = "tick" /\ microbit_ID = 0 /\ messages(serialOut) # <<>>
         /\ ev'.op = "tick" /\ halted' = "no")
          => microbit_ID' = advance(0, Len(device_registrar))]_vars

\* after the answer of the last leaf a tick has wrapped to slot 0 and written
\* the line of the gateway
C30_Witness ==
  /\ Started /\ Len(device_registrar) = 3
  /\ ev.op = "tick" /\ microbit_ID = 0
  /\ ~activeRadioRequest
  /\ messages(serialOut) # <<>>
  /\ device_telemetry[1] = init_telemetry

\* C26: the order of a poll of a leaf. The deadline is armed, then the
\* in-flight flag is set, then the token is broadcast, with no pause in
\* between: when the token is sent the deadline is armed and the flag set, and
\* a tick tests the deadline only when no statement of a poll is left to run.
C26_ArmFlagThenToken ==
  [][ev'.op = "step" =>
       LET left(op) == \E i \in 1..Len(fiber.tick) : fiber.tick[i].op = op
       IN /\ ev'.ins.op = "flag" =>
               ~left("arm") /\ left("token") /\ timerRadioRequest = now + 400
          /\ ev'.ins.op = "token" =>
               /\ ~left("arm") /\ ~left("flag")
               /\ activeRadioRequest /\ timerRadioRequest = now + 400
               /\ ev.op = "step" /\ ev.who = "tick" /\ ev.ins.op = "flag"
          /\ ev'.ins.op = "late?" =>
               ~left("arm") /\ ~left("flag") /\ ~left("token")]_vars

\* C26 as stated: the token is broadcast first, so when the deadline is armed
\* the token of the poll has been sent
C26_TokenThenArmFlag ==
  [][(ev'.op = "step" /\ ev'.ins.op = "arm")
       => ~\E i \in 1..Len(fiber.tick) : fiber.tick[i].op = "token"]_vars

\* the token has just been sent to the leaf, the request is in flight
C26_Witness ==
  /\ ev.op = "step" /\ ev.ins.op = "token"
  /\ tokenOf(radioOut) = Sender
  /\ activeRadioRequest /\ timerRadioRequest = now + 400

\* C27: appends and flushes are atomic under interleaving at the pauses. What
\* gatewaySendTelemetry(sn, ...) writes to the table of buffers, the buffer
\* with the new field and the template after a flush, it writes to the buffer
\* of sn, whatever the other fibers do while it pauses.
C27_AppendsAndFlushesAtomic ==
  [][(ev'.op = "step" /\ ev'.ins.op \in {"close", "store"}) =>
       \A i \in 1..Len(device_telemetry) :
         i # indexOf(device_registrar, ev'.ins.v[1]) + 1
           => device_telemetry'[i] = device_telemetry[i]]_vars

\* C28: the writes to the serial port are serialized: while a fiber is
\* between the line of a message and the end of its framing (the pause after
\* the line, the empty line, the pause after it), no other fiber writes a line.
C28_UplinkWritesSerialized ==
  [][(ev'.op = "step" /\ serialOut' # <<>>) =>
       \A f \in {"tick", "radio"} :
         (f # ev'.who /\ fiber[f] # <<>>) => Head(fiber[f]).op \notin {"frame", "store"}]_vars

\* C31: a "register" value received while a request for another cursor
\* position is in flight does not interrupt the request, whether the sender is
\* new or registered already: the cursor and the in-flight flag stay as they
\* are and the handler sends no token.
C31_RegistrationKeepsRequest ==
  [][(/\ Started
      /\ ev'.op = "radio" /\ ev'.pkt.name = "register"
      /\ activeRadioRequest
      /\ cursorTarget # ev'.pkt.sn)
       => (/\ microbit_ID' = microbit_ID
           /\ activeRadioRequest'
           /\ tokenOf(radioOut') = 0
           /\ halted' = "no")]_vars

\* with the request to the first leaf in flight the second leaf has
\* registered, and then registered again
C31_Witness ==
  /\ ev.op = "radio" /\ ev.pkt.name = "register"
  /\ activeRadioRequest
  /\ cursorTarget \in LeafSN /\ cursorTarget # ev.pkt.sn
  /\ indexOf(device_registrar, ev.pkt.sn) = 2
  /\ radioOut = <<>>

\* C32: the deadline of a request in flight is changed only by a tick that
\* issues a token or by the registration of a new device (the grace deadline):
\* a radio value of a device that is not the polled one, and a "register" of a
\* registered device, do not postpone it.
C32_DeadlineNotPostponed ==
  [][(/\ Started /\ activeRadioRequest
      /\ ev'.op = "radio" /\ halted' = "no"
      /\ \/ ev'.pkt.name # "register" /\ ev'.pkt.sn # cursorTarget
         \/ ev'.pkt.name = "register" /\ indexOf(device_registrar, ev'.pkt.sn) >= 0)
       => ~(timerRadioRequest' > timerRadioRequest)]_vars

\* C33: the property values of a leaf are delivered. When the terminator of
\* the leaf is received at the end of a poll, the property buffer of the leaf,
\* if it holds fields, is flushed as one property line and is the template
\* again: it does not grow from one poll cycle to the next.
C33_LeafPropertiesDelivered ==
  [][(/\ Started
      /\ ev'.op = "radio" /\ ev'.pkt.name = "eom"
      /\ indexOf(device_registrar, ev'.pkt.sn) > 0
      /\ halted' = "no")
       => /\ device_property'[indexOf(device_registrar, ev'.pkt.sn) + 1] = init_property
          /\ device_property[indexOf(device_registrar, ev'.pkt.sn) + 1] # init_property
               => \E k \in 1..Len(serialOut') :
                    startsWith(serialOut'[k], "{\"topic\":\"property\",")]_vars

\* how often sub occurs in s
occurrences(s, sub) ==
  Cardinality({i \in 1..(Len(s) - Len(sub) + 1) : SubSeq(s, i, i + Len(sub) - 1) = sub})

\* C34: a flushed telemetry line carries the fields of one poll cycle: it
\* holds the key "id" once, also when the terminator of an earlier reply of
\* the device was lost on the radio and the device is polled again.
C34_OneCyclePerLine ==
  [][\A k \in 1..Len(serialOut') :
       startsWith(serialOut'[k], "{\"topic\":\"telemetry\"")
         => occurrences(serialOut'[k], "\"id\":") <= 1]_vars

\* the poll cursor is an index of the registrar
cursorValid(id, registrar) == id # NaN /\ 0 <= id /\ id < Len(registrar)

\* C35: in a started gateway the poll cursor stays an index of the registrar,
\* 0 <= microbit_ID < device_registrar.length, whatever tick, radio value of
\* a registered or of an unknown sender, or serial line it handles.
C35_CursorStaysRegistryIndex ==
  [][(Started /\ cursorValid(microbit_ID, device_registrar) /\ ~ev'.reset)
       => cursorValid(microbit_ID', device_registrar')]_vars

\* C36: the registrar and the assembler agree on the ids. In every state the
\* registrar and the tables of the telemetry, property and log buffers have
\* the same length, and the three buffers of every active entry start with
\* the topic of their own stream.
C36_TablesAgree ==
  /\ Len(device_telemetry) = Len(device_registrar)
  /\ Len(device_property) = Len(device_registrar)
  /\ Len(device_log) = Len(device_registrar)
  /\ \A i \in 1..Len(device_registrar) :
       device_telemetry[i] # null =>
         /\ startsWith(device_telemetry[i], "{\"topic\":\"telemetry\"")
         /\ startsWith(device_property[i], "{\"topic\":\"property\"")
         /\ startsWith(device_log[i], "{\"topic\":\"device_log\"")

\* three devices, one of the leaves deactivated, the other with a field in
\* its telemetry buffer
C36_Witness ==
  /\ Started /\ Len(device_registrar) = 3 /\ halted = "no"
  /\ \E i, j \in 2..3 :
       /\ device_telemetry[i] = null
       /\ device_telemetry[j] # null /\ device_telemetry[j] # init_telemetry

\* the values among sent with the given name
named(sent, name) == {k \in 1..Len(sent) : sent[k].name = name}

telemetryLines(out) ==
  SelectSeq(out, LAMBDA l : startsWith(l, substr(init_telemetry, 0, Len(init_telemetry) - 1)))

\* C38: the two gateway modules route telemetry alike. When both programs
\* run, have the same registrar and the same telemetry buffers, and a
\* registered node sends a value that both store as telemetry ("id", "eom"),
\* then after the handlers the telemetry buffers of the two are still the
\* same (the field went to the buffer at the sender's registry index in both)
\* and both have written the same telemetry lines.
C38_SameTelemetryRouting ==
  [][(/\ ev'.op = "radio" /\ ev'.pkt.name \in {"id", "eom"}
      /\ halted = "no" /\ twin.other.halted = "no" /\ twin.other.doGatewayOrchestrator
      /\ twin.other.device_registrar = device_registrar
      /\ twin.other.device_telemetry = device_telemetry
      /\ indexOf(device_registrar, ev'.pkt.sn) >= 0)
     => /\ twin'.other.device_telemetry = device_telemetry'
        /\ telemetryLines(twin'.other.serialOut) = telemetryLines(serialOut')]_vars

\* the diagnostic lines among the lines out
debugLines(out) == SelectSeq(out, LAMBDA l : startsWith(l, "{\"topic\":\"debug\""))

\* C39: diagnostics are gated and free of side effects. The program with
\* debug off has written no diagnostic line; and when the program with debug
\* on has handled all its calls and the one with debug off has handled the
\* same calls, none of them coming while it was handling another, the two
\* have the same registrar, cursor, in-flight flag, loss counter and buffers.
C39_DebugChangesNothing ==
  /\ debugLines(twin.quiet.serialOut) = <<>>
  /\ (/\ halted = "no" /\ twin.quiet.halted = "no"
      /\ fiber.tick = <<>> /\ fiber.radio = <<>>
      /\ twin.exact /\ twin.due.tick = 0 /\ twin.due.radio = 0)
     => /\ twin.quiet.device_registrar = device_registrar
        /\ twin.quiet.microbit_ID = microbit_ID
        /\ twin.quiet.activeRadioRequest = activeRadioRequest
        /\ twin.quiet.packet_loss = packet_loss
        /\ twin.quiet.device_telemetry = device_telemetry
        /\ twin.quiet.device_property = device_property
        /\ twin.quiet.device_log = device_log

====
